---- MODULE Spec2Model ----
(***************************************************************************)
(* SmellDSL interpreter: lexer, parser, semantic analyzer, execution       *)
(* engine, rule checker and pipeline of GabrielSchafer/smellDetect.        *)
(*                                                                         *)
(* Text is modelled as a sequence of one-character strings, so that the    *)
(* lexer's regular expressions, the parser's " ".join(...).replace(...),   *)
(* str.split() and str.upper() are computed character by character.        *)
(* A Python dict (a JSON object) is modelled as a sequence of <<key,value>>*)
(* pairs with distinct keys, in insertion order, because sorted() of       *)
(* dict.items() and the loops over .items()/.keys() depend on that order.  *)
(***************************************************************************)
EXTENDS Integers, Sequences, FiniteSets, TLC

VARIABLES
    pc,        \* position of the operation under way
    src,       \* smelldsl_content: the DSL source text
    dadosIn,   \* dados_content: the measured-values JSON document
    limitesIn, \* limites_content: the thresholds JSON document
    program,   \* the declarations the source text was written from
    pos,       \* where the next match of Lexer.tokenize starts in the source
    tokens,    \* the tokens of Lexer.tokenize / Parser.tokens
    cursor,    \* Parser.current_token_index
    frame,     \* the local variables of the Parser method under way
    parsed,    \* Parser.result / dados_interpretados (ParsedResult)
    dados,     \* engine.dados
    limites,   \* engine.limites
    logs,      \* Logger.logs
    printed,   \* what mainv1.py writes with print(), one entry per call
    err,       \* the exception raised, if any
    outcome    \* how the operation ended: "none", "returned", or the name of the exception that escaped

vars == <<pc, src, dadosIn, limitesIn, program, pos, tokens, cursor, frame, parsed, dados, limites,
          logs, printed, err, outcome>>

inputVars == <<src, dadosIn, limitesIn, program>>
parserVars == <<pos, tokens, cursor, frame, parsed>>
dataVars == <<dados, limites>>

(***************************************************************************)
(* Bounds of the model.                                                    *)
(***************************************************************************)
MaxTiers == 3
MaxRules == 2
MaxDecls == 3
MaxKeys == 2

(***************************************************************************)
(* Characters and strings.                                                 *)
(***************************************************************************)
LowerLetters == <<"a","b","c","d","e","f","g","h","i","j","k","l","m",
                  "n","o","p","q","r","s","t","u","v","w","x","y","z">>
UpperLetters == <<"A","B","C","D","E","F","G","H","I","J","K","L","M",
                  "N","O","P","Q","R","S","T","U","V","W","X","Y","Z">>
Digits == {"0","1","2","3","4","5","6","7","8","9"}

Range(s) == {s[i] : i \in DOMAIN s}

IsAlpha(c) == c \in Range(LowerLetters) \cup Range(UpperLetters) \cup {"_"}
IsAlnum(c) == IsAlpha(c) \/ c \in Digits
IsBlank(c) == c \in {" ", "\t"}
\* str.split() with no argument splits on any whitespace
IsSpace(c) == c \in {" ", "\t", "\n"}

UpperChar(c) ==
    IF \E i \in DOMAIN LowerLetters : LowerLetters[i] = c
    THEN UpperLetters[CHOOSE i \in DOMAIN LowerLetters : LowerLetters[i] = c]
    ELSE c

\* str.upper()
Upper(s) == [i \in DOMAIN s |-> UpperChar(s[i])]

\* str.split(): the maximal runs of non-whitespace characters
RECURSIVE SplitFrom(_, _, _, _)
SplitFrom(s, i, cur, acc) ==
    IF i > Len(s) THEN (IF cur = <<>> THEN acc ELSE Append(acc, cur))
    ELSE IF IsSpace(s[i])
         THEN SplitFrom(s, i + 1, <<>>, IF cur = <<>> THEN acc ELSE Append(acc, cur))
         ELSE SplitFrom(s, i + 1, Append(cur, s[i]), acc)

Split(s) == SplitFrom(s, 1, <<>>, <<>>)

\* str.split(sep) for a one-character sep: empty pieces are kept
RECURSIVE SplitOnFrom(_, _, _, _, _)
SplitOnFrom(s, sep, i, cur, acc) ==
    IF i > Len(s) THEN Append(acc, cur)
    ELSE IF s[i] = sep THEN SplitOnFrom(s, sep, i + 1, <<>>, Append(acc, cur))
         ELSE SplitOnFrom(s, sep, i + 1, Append(cur, s[i]), acc)

SplitOn(s, sep) == SplitOnFrom(s, sep, 1, <<>>, <<>>)

\* str.strip()
Strip(s) ==
    LET solid == {i \in DOMAIN s : ~IsSpace(s[i])}
    IN  IF solid = {} THEN <<>>
        ELSE SubSeq(s, CHOOSE i \in solid : \A j \in solid : i <= j,
                       CHOOSE i \in solid : \A j \in solid : j <= i)

(***************************************************************************)
(* dict as an insertion-ordered sequence of <<key, value>> pairs.          *)
(***************************************************************************)
Keys(d) == {d[i][1] : i \in DOMAIN d}
HasKey(d, k) == \E i \in DOMAIN d : d[i][1] = k
Get(d, k) == d[CHOOSE i \in DOMAIN d : d[i][1] = k][2]
IsDict(d) == \A i, j \in DOMAIN d : d[i][1] = d[j][1] => i = j

\* Logger._log (the timestamp is left out: no claim reads it)
Entry(level, tag, args) == [level |-> level, tag |-> tag, args |-> args]

\* a local variable: body(x) with x bound to the value of v, computed once
Bind(v, body(_)) == CHOOSE y \in {body(x) : x \in {v}} : TRUE

(***************************************************************************)
(* Lexer (interpreter.py).                                                 *)
(***************************************************************************)
\* an exception: its class and what its message names
Error(type, check, expected, found) ==
    [type |-> type, check |-> check, expected |-> expected, found |-> found]
NoError == Error("none", "none", <<>>, <<>>)

Token(type, value) == [type |-> type, value |-> value]

\* the token types the lexer and the parser name in their own text
TY_ID == <<"I","D">>
TY_OPERATOR == <<"O","P","E","R","A","T","O","R">>
TY_LBRACE == <<"L","B","R","A","C","E">>
TY_RBRACE == <<"R","B","R","A","C","E">>
TY_DOT == <<"D","O","T">>
TY_COMMA == <<"C","O","M","M","A">>
TY_SMELLTYPE == <<"S","M","E","L","L","T","Y","P","E">>
TY_SMELL == <<"S","M","E","L","L">>
TY_EXTENDS == <<"E","X","T","E","N","D","S">>
TY_FEATURE == <<"F","E","A","T","U","R","E">>
TY_IS == <<"I","S">>
TY_INTERVAL == <<"I","N","T","E","R","V","A","L">>
TY_WITH == <<"W","I","T","H">>
TY_THRESHOLD == <<"T","H","R","E","S","H","O","L","D">>
TY_SYMPTOM == <<"S","Y","M","P","T","O","M">>
TY_TREATMENT == <<"T","R","E","A","T","M","E","N","T">>
TY_RULE == <<"R","U","L","E">>
TY_WHEN == <<"W","H","E","N">>
TY_THEN == <<"T","H","E","N">>

\* interpreter.py:105-108
KW_smelltype == <<"s","m","e","l","l","t","y","p","e">>
KW_smell == <<"s","m","e","l","l">>
KW_extends == <<"e","x","t","e","n","d","s">>
KW_feature == <<"f","e","a","t","u","r","e">>
KW_is == <<"i","s">>
KW_Interval == <<"I","n","t","e","r","v","a","l">>
KW_with == <<"w","i","t","h">>
KW_threshold == <<"t","h","r","e","s","h","o","l","d">>
KW_symptom == <<"s","y","m","p","t","o","m">>
KW_treatment == <<"t","r","e","a","t","m","e","n","t">>
KW_rule == <<"r","u","l","e">>
KW_when == <<"w","h","e","n">>
KW_then == <<"t","h","e","n">>
keywords == {KW_smelltype, KW_smell, KW_extends, KW_feature, KW_is, KW_Interval, KW_with, KW_threshold, KW_symptom, KW_treatment, KW_rule, KW_when, KW_then}

NotNewline(c) == c # "\n"

\* the character classes of the regular expressions that repeat
InClass(class, c) ==
    CASE class = "alnum" -> IsAlnum(c)       \* [A-Za-z0-9_]
      [] class = "blank" -> IsBlank(c)       \* [ \t]
      [] class = "any" -> NotNewline(c)      \* .
      [] class = "space" -> IsSpace(c)       \* \s

\* the end (exclusive) of the longest run of characters of the class from i on
RECURSIVE RunEnd(_, _, _)
RunEnd(code, i, class) ==
    IF i <= Len(code) /\ InClass(class, code[i]) THEN RunEnd(code, i + 1, class) ELSE i

\* The next match of tok_regex at position i: the alternatives are tried in the
\* order of token_specification, each matching as much as it can.
MatchAt(code, i) ==
    LET c == code[i]
    IN  CASE c = "/" /\ i < Len(code) /\ code[i + 1] = "/" ->
                [kind |-> "COMMENT", end |-> RunEnd(code, i, "any")]
          [] IsAlpha(c) -> [kind |-> "ID", end |-> RunEnd(code, i, "alnum")]
          [] c \in {">", "="} -> [kind |-> "OPERATOR", end |-> i + 1]
          [] c = "{" -> [kind |-> "LBRACE", end |-> i + 1]
          [] c = "}" -> [kind |-> "RBRACE", end |-> i + 1]
          [] c = "." -> [kind |-> "DOT", end |-> i + 1]
          [] c = "," -> [kind |-> "COMMA", end |-> i + 1]
          [] c = "\n" -> [kind |-> "NEWLINE", end |-> i + 1]
          [] IsBlank(c) -> [kind |-> "SKIP", end |-> RunEnd(code, i, "blank")]
          [] OTHER -> [kind |-> "MISMATCH", end |-> i + 1]

\* mo.lastgroup as the token type the parser compares with
GroupType(kind) ==
    CASE kind = "ID" -> TY_ID
      [] kind = "OPERATOR" -> TY_OPERATOR
      [] kind = "LBRACE" -> TY_LBRACE
      [] kind = "RBRACE" -> TY_RBRACE
      [] kind = "DOT" -> TY_DOT
      [] kind = "COMMA" -> TY_COMMA

\* interpreter.py:114-123: the body of the loop, for the match that starts at i
LexMatch(code, i, toks) ==
    LET mo == MatchAt(code, i)
        value == SubSeq(code, i, mo.end - 1)
    IN  IF mo.kind = "ID" /\ value \in keywords
        THEN [ok |-> TRUE, end |-> mo.end, tokens |-> Append(toks, Token(Upper(value), value)),
              err |-> NoError]
        ELSE IF mo.kind \in {"SKIP", "COMMENT", "NEWLINE"}
        THEN [ok |-> TRUE, end |-> mo.end, tokens |-> toks, err |-> NoError]
        ELSE IF mo.kind = "MISMATCH"
        THEN [ok |-> FALSE, end |-> i, tokens |-> <<>>,
              err |-> Error("RuntimeError", "Caractere inesperado", <<>>, value)]
        ELSE [ok |-> TRUE, end |-> mo.end, tokens |-> Append(toks, Token(GroupType(mo.kind), value)),
              err |-> NoError]

\* interpreter.py:113-124: the loop over the matches
RECURSIVE TokenizeFrom(_, _, _)
TokenizeFrom(code, i, toks) ==
    IF i > Len(code) THEN [ok |-> TRUE, tokens |-> toks, err |-> NoError]
    ELSE Bind(LexMatch(code, i, toks),
              LAMBDA m : IF m.ok THEN TokenizeFrom(code, m.end, m.tokens)
                         ELSE [ok |-> FALSE, tokens |-> <<>>, err |-> m.err])

\* Lexer.tokenize
tokenize(code) == TokenizeFrom(code, 1, <<>>)

(***************************************************************************)
(* Parser (interpreter.py). An index is Parser.current_token_index, which  *)
(* counts from 0: the current token is toks[i + 1].                        *)
(***************************************************************************)
\* None, for the optional fields of a Smell. The parser sets them to None or to
\* the text of an identifier (never empty) and the code only tests their truth.
PyNone == <<>>
\* no Parser method is under way
NoFrame == <<>>

Rule(name, condition, action) == [name |-> name, condition |-> condition, action |-> action]
Feature(name, thresholds) == [name |-> name, thresholds |-> thresholds]
Smell(name, extends, features, symptom, treatment) ==
    [name |-> name, extends |-> extends, features |-> features,
     symptom |-> symptom, treatment |-> treatment]

\* " ".join(parts)
RECURSIVE JoinFrom(_, _, _, _)
JoinFrom(parts, sep, i, acc) ==
    IF i > Len(parts) THEN acc
    ELSE JoinFrom(parts, sep, i + 1, IF i = 1 THEN parts[i] ELSE acc \o sep \o parts[i])

Join(parts, sep) == JoinFrom(parts, sep, 1, <<>>)

\* str.replace(old, new): the non-overlapping occurrences, from the left
RECURSIVE ReplaceFrom(_, _, _, _, _)
ReplaceFrom(s, old, new, i, acc) ==
    IF i > Len(s) THEN acc
    ELSE IF i + Len(old) - 1 <= Len(s) /\ SubSeq(s, i, i + Len(old) - 1) = old
         THEN ReplaceFrom(s, old, new, i + Len(old), acc \o new)
         ELSE ReplaceFrom(s, old, new, i + 1, Append(acc, s[i]))

Replace(s, old, new) == ReplaceFrom(s, old, new, 1, <<>>)

\* Parser.current_token is not None
HasCurrent(toks, i) == i < Len(toks)
\* Parser.current_token().type, for an index that has a token
CurType(toks, i) == toks[i + 1].type
CurIs(toks, i, type) == HasCurrent(toks, i) /\ CurType(toks, i) = type

\* what the SyntaxError of eat() reports as found at the end of the tokens
FimDoCodigo == <<"F","i","m"," ","d","o"," ","c","ó","d","i","g","o">>

advance_stuck(i) == i

\* Parser.advance
advance(i) == i + 1

\* Parser.eat
eat(toks, i, token_type) ==
    IF CurIs(toks, i, token_type)
    THEN [ok |-> TRUE, idx |-> advance(i), err |-> NoError]
    ELSE [ok |-> FALSE, idx |-> i,
          err |-> Error("SyntaxError", "eat", token_type,
                        IF HasCurrent(toks, i) THEN CurType(toks, i) ELSE FimDoCodigo)]

\* consecutive calls of eat(), stopping at the first that raises
RECURSIVE EatFrom(_, _, _, _)
EatFrom(toks, i, types, k) ==
    IF k > Len(types) THEN [ok |-> TRUE, idx |-> i, err |-> NoError]
    ELSE Bind(eat(toks, i, types[k]),
              LAMBDA r : IF r.ok THEN EatFrom(toks, r.idx, types, k + 1) ELSE r)

EatSeq(toks, i, types) == EatFrom(toks, i, types, 1)

\* interpreter.py:208-210
RECURSIVE ThresholdsLoop(_, _, _)
ThresholdsLoop(toks, i, thresholds) ==
    IF CurIs(toks, i, TY_COMMA)
    THEN Bind(EatSeq(toks, i, <<TY_COMMA, TY_ID>>),
              LAMBDA r :
                IF r.ok THEN ThresholdsLoop(toks, r.idx, Append(thresholds, toks[i + 2].value))
                ELSE [ok |-> FALSE, idx |-> r.idx, err |-> r.err, thresholds |-> thresholds])
    ELSE [ok |-> TRUE, idx |-> i, err |-> NoError, thresholds |-> thresholds]

\* Parser.parse_feature
parse_feature(toks, i) ==
    Bind(EatSeq(toks, i, <<TY_FEATURE, TY_ID, TY_IS, TY_INTERVAL, TY_WITH, TY_THRESHOLD, TY_ID>>),
         LAMBDA r :
           IF ~r.ok THEN [ok |-> FALSE, idx |-> r.idx, err |-> r.err, feature |-> PyNone]
           ELSE Bind(ThresholdsLoop(toks, r.idx, <<toks[i + 7].value>>),
                     LAMBDA t : [ok |-> t.ok, idx |-> t.idx, err |-> t.err,
                                 feature |-> Feature(toks[i + 2].value, t.thresholds)]))

\* interpreter.py:185-196
RECURSIVE SmellBody(_, _, _)
SmellBody(toks, i, smell) ==
    IF ~(HasCurrent(toks, i) /\ CurType(toks, i) # TY_RBRACE)
    THEN [ok |-> TRUE, idx |-> i, err |-> NoError, smell |-> smell]
    ELSE
    CASE CurType(toks, i) = TY_FEATURE ->
            Bind(parse_feature(toks, i),
                 LAMBDA f :
                   IF f.ok
                   THEN SmellBody(toks, f.idx, [smell EXCEPT !.features = Append(@, f.feature)])
                   ELSE [ok |-> FALSE, idx |-> f.idx, err |-> f.err, smell |-> smell])
      [] CurType(toks, i) = TY_SYMPTOM ->
            Bind(EatSeq(toks, i, <<TY_SYMPTOM, TY_ID>>),
                 LAMBDA r :
                   IF r.ok
                   THEN SmellBody(toks, r.idx, [smell EXCEPT !.symptom = toks[i + 2].value])
                   ELSE [ok |-> FALSE, idx |-> r.idx, err |-> r.err, smell |-> smell])
      [] CurType(toks, i) = TY_TREATMENT ->
            Bind(EatSeq(toks, i, <<TY_TREATMENT, TY_ID>>),
                 LAMBDA r :
                   IF r.ok
                   THEN SmellBody(toks, r.idx, [smell EXCEPT !.treatment = toks[i + 2].value])
                   ELSE [ok |-> FALSE, idx |-> r.idx, err |-> r.err, smell |-> smell])
      [] OTHER ->
            [ok |-> FALSE, idx |-> i, smell |-> smell,
             err |-> Error("SyntaxError", "smell_body", <<>>, CurType(toks, i))]

Raised(r, result) == [ok |-> FALSE, idx |-> r.idx, err |-> r.err, result |-> result]

\* interpreter.py:184-198: from eat('LBRACE') to the append
SmellBlock(toks, i, smell_obj, result) ==
    Bind(eat(toks, i, TY_LBRACE),
         LAMBDA open :
           IF ~open.ok THEN Raised(open, result)
           ELSE Bind(SmellBody(toks, open.idx, smell_obj),
                     LAMBDA body :
                       IF ~body.ok THEN Raised(body, result)
                       ELSE Bind(eat(toks, body.idx, TY_RBRACE),
                                 LAMBDA close :
                                   IF ~close.ok THEN Raised(close, result)
                                   ELSE [ok |-> TRUE, idx |-> close.idx, err |-> NoError,
                                         result |-> [result EXCEPT
                                                       !.smells = Append(@, body.smell)]])))

\* Parser.parse_smell
parse_smell(toks, i, result) ==
    Bind(EatSeq(toks, i, <<TY_SMELL, TY_ID>>),
         LAMBDA head :
           IF ~head.ok THEN Raised(head, result)
           ELSE IF CurIs(toks, head.idx, TY_EXTENDS)
           THEN Bind(EatSeq(toks, head.idx, <<TY_EXTENDS, TY_ID>>),
                     LAMBDA ext :
                       IF ~ext.ok THEN Raised(ext, result)
                       ELSE SmellBlock(toks, ext.idx,
                                       Smell(toks[i + 2].value, toks[head.idx + 2].value,
                                             <<>>, PyNone, PyNone),
                                       result))
           ELSE SmellBlock(toks, head.idx,
                           Smell(toks[i + 2].value, PyNone, <<>>, PyNone, PyNone), result))

parse_smelltype_once(toks, i, result) ==
    Bind(EatSeq(toks, i, <<TY_SMELLTYPE, TY_ID>>),
         LAMBDA r :
           IF ~r.ok THEN Raised(r, result)
           ELSE [ok |-> TRUE, idx |-> r.idx, err |-> NoError,
                 result |-> IF \E k \in DOMAIN result.smell_types :
                                  result.smell_types[k] = toks[i + 2].value
                            THEN result
                            ELSE [result EXCEPT !.smell_types = Append(@, toks[i + 2].value)]])

\* Parser.parse_smelltype
parse_smelltype(toks, i, result) ==
    Bind(EatSeq(toks, i, <<TY_SMELLTYPE, TY_ID>>),
         LAMBDA r :
           IF ~r.ok THEN Raised(r, result)
           ELSE [ok |-> TRUE, idx |-> r.idx, err |-> NoError,
                 result |-> [result EXCEPT !.smell_types = Append(@, toks[i + 2].value)]])

\* interpreter.py:219-221
RECURSIVE ConditionLoop(_, _, _)
ConditionLoop(toks, i, condition_tokens) ==
    IF HasCurrent(toks, i) /\ CurType(toks, i) # TY_THEN
    THEN ConditionLoop(toks, i + 1, Append(condition_tokens, toks[i + 1].value))
    ELSE [idx |-> i, values |-> condition_tokens]

action_loop_without_advance(i) == i

\* interpreter.py:232: self.advance() at the end of a pass of the action loop
action_loop_advance(i) == advance(i)

\* interpreter.py:230-232
RECURSIVE ActionLoop(_, _, _)
ActionLoop(toks, i, action_tokens) ==
    IF CurIs(toks, i, TY_ID)
    THEN ActionLoop(toks, action_loop_advance(i), Append(action_tokens, toks[i + 1].value))
    ELSE [idx |-> i, values |-> action_tokens]

ConditionStringKeepSpaces(condition_tokens) == Join(condition_tokens, <<" ">>)

\* interpreter.py:222
ConditionString(condition_tokens) ==
    Replace(Join(condition_tokens, <<" ">>), <<" ", ".", " ">>, <<".">>)

\* Parser.parse_rule
parse_rule(toks, i, result) ==
    Bind(EatSeq(toks, i, <<TY_RULE, TY_ID, TY_WHEN>>),
         LAMBDA head :
           IF ~head.ok THEN Raised(head, result)
           ELSE
           Bind(ConditionLoop(toks, head.idx, <<>>),
                LAMBDA cond :
                  Bind(EatSeq(toks, cond.idx, <<TY_THEN, TY_ID>>),
                       LAMBDA then :
                         IF ~then.ok THEN Raised(then, result)
                         ELSE
                         Bind(ActionLoop(toks, then.idx, <<toks[cond.idx + 2].value>>),
                              LAMBDA act :
                                [ok |-> TRUE, idx |-> act.idx, err |-> NoError,
                                 result |->
                                   [result EXCEPT
                                      !.rules = Append(@, Rule(toks[i + 2].value,
                                                               ConditionString(cond.values),
                                                               Join(act.values, <<" ">>)))]]))))

\* interpreter.py:154-162: one pass of the loop of Parser.parse
ParseDeclaration(toks, i, result) ==
    CASE CurType(toks, i) = TY_SMELLTYPE -> parse_smelltype(toks, i, result)
      [] CurType(toks, i) = TY_SMELL -> parse_smell(toks, i, result)
      [] CurType(toks, i) = TY_RULE -> parse_rule(toks, i, result)
      [] OTHER -> [ok |-> FALSE, idx |-> i, result |-> result,
                   err |-> Error("SyntaxError", "declaration", <<>>, CurType(toks, i))]

\* Parser.parse, from index i with the result built so far
RECURSIVE ParseFrom(_, _, _)
ParseFrom(toks, i, result) ==
    IF ~HasCurrent(toks, i) THEN [ok |-> TRUE, idx |-> i, err |-> NoError, result |-> result]
    ELSE Bind(ParseDeclaration(toks, i, result),
              LAMBDA r : IF r.ok THEN ParseFrom(toks, r.idx, r.result) ELSE r)

NoParsed == [smell_types |-> <<>>, smells |-> <<>>, rules |-> <<>>]

\* Parser(tokens).parse()
parse(toks) == ParseFrom(toks, 0, NoParsed)

(***************************************************************************)
(* SemanticAnalyzer (interpreter.py).                                      *)
(***************************************************************************)
SemanticError(check, who, what) == Error("SemanticError", check, who, what)

\* the first position of names whose name was already seen, 0 if there is none
FirstDuplicate(names) ==
    LET dups == {i \in DOMAIN names : \E j \in 1..(i - 1) : names[j] = names[i]}
    IN  IF dups = {} THEN 0 ELSE CHOOSE i \in dups : \A j \in dups : i <= j

NamesOf(decls) == [i \in DOMAIN decls |-> decls[i].name]

check_for_duplicates_shared_namespace(pr) ==
    LET all == pr.smell_types \o NamesOf(pr.smells) \o NamesOf(pr.rules)
    IN  IF FirstDuplicate(all) # 0
        THEN SemanticError("duplicate", <<>>, all[FirstDuplicate(all)])
        ELSE NoError

\* SemanticAnalyzer.check_for_duplicates
check_for_duplicates(pr) ==
    LET st == FirstDuplicate(pr.smell_types)
        sm == FirstDuplicate(NamesOf(pr.smells))
        ru == FirstDuplicate(NamesOf(pr.rules))
    IN  IF st # 0 THEN SemanticError("duplicate_smelltype", <<>>, pr.smell_types[st])
        ELSE IF sm # 0 THEN SemanticError("duplicate_smell", <<>>, pr.smells[sm].name)
        ELSE IF ru # 0 THEN SemanticError("duplicate_rule", <<>>, pr.rules[ru].name)
        ELSE NoError

\* self.defined_smell_types once check_for_duplicates has returned
defined_smell_types(pr) == {pr.smell_types[i] : i \in DOMAIN pr.smell_types}

\* self.defined_smells[name] once check_for_duplicates has returned
defined_smell(pr, name) == pr.smells[CHOOSE i \in DOMAIN pr.smells : pr.smells[i].name = name]
is_defined_smell(pr, name) == \E i \in DOMAIN pr.smells : pr.smells[i].name = name

BadExtendsIgnored(pr, smell) == FALSE

\* interpreter.py:281
BadExtends(pr, smell) ==
    smell.extends # PyNone /\ smell.extends \notin defined_smell_types(pr)

\* SemanticAnalyzer.check_extends_validity
check_extends_validity(pr) ==
    LET bad == {i \in DOMAIN pr.smells : BadExtends(pr, pr.smells[i])}
    IN  IF bad = {} THEN NoError
        ELSE LET i == CHOOSE k \in bad : \A j \in bad : k <= j
             IN  SemanticError("extends", pr.smells[i].name, pr.smells[i].extends)

\* interpreter.py:288,291: rule_pattern.match(condition), the pattern being
\* ^\s*([A-Za-z_][A-Za-z0-9_]*)\.([A-Za-z_][A-Za-z0-9_]*)
MatchRulePattern(condition) ==
    LET n == Len(condition)
        b1 == RunEnd(condition, 1, "space")
        e1 == RunEnd(condition, b1, "alnum")
        e2 == RunEnd(condition, e1 + 1, "alnum")
    IN  IF /\ b1 <= n /\ IsAlpha(condition[b1])
           /\ e1 <= n /\ condition[e1] = "."
           /\ e1 + 1 <= n /\ IsAlpha(condition[e1 + 1])
        THEN [matched |-> TRUE, smell_name |-> SubSeq(condition, b1, e1 - 1),
              feature_name |-> SubSeq(condition, e1 + 1, e2 - 1)]
        ELSE [matched |-> FALSE, smell_name |-> <<>>, feature_name |-> <<>>]

HasFeatureInAnySmell(pr, smell_obj, feature_name) ==
    \E k \in DOMAIN pr.smells : \E i \in DOMAIN pr.smells[k].features :
        pr.smells[k].features[i].name = feature_name

\* interpreter.py:307  any(f.name == feature_name for f in smell_obj.features)
HasFeature(pr, smell_obj, feature_name) ==
    \E i \in DOMAIN smell_obj.features : smell_obj.features[i].name = feature_name

\* interpreter.py:291-308: the body of the loop, for one rule
check_rule_reference(pr, rule) ==
    LET match == MatchRulePattern(rule.condition)
    IN  IF ~match.matched THEN NoError
        ELSE IF ~is_defined_smell(pr, match.smell_name)
        THEN SemanticError("rule_smell", rule.name, match.smell_name)
        ELSE IF ~HasFeature(pr, defined_smell(pr, match.smell_name), match.feature_name)
        THEN SemanticError("rule_feature", rule.name, match.feature_name)
        ELSE NoError

\* SemanticAnalyzer.check_rule_references
check_rule_references(pr) ==
    LET bad == {i \in DOMAIN pr.rules : check_rule_reference(pr, pr.rules[i]) # NoError}
    IN  IF bad = {} THEN NoError
        ELSE check_rule_reference(pr, pr.rules[CHOOSE k \in bad : \A j \in bad : k <= j])

analyze_references_first(pr) ==
    IF check_rule_references(pr) # NoError THEN check_rule_references(pr)
    ELSE IF check_extends_validity(pr) # NoError THEN check_extends_validity(pr)
    ELSE check_for_duplicates(pr)

\* SemanticAnalyzer.analyze: the exception it raises, NoError if it returns
analyze(pr) ==
    IF check_for_duplicates(pr) # NoError THEN check_for_duplicates(pr)
    ELSE IF check_extends_validity(pr) # NoError THEN check_extends_validity(pr)
    ELSE check_rule_references(pr)

\* what analyze writes to the logger
analyze_log(pr) ==
    <<Entry("INFO", "semantic_start", <<>>)>>
    \o (IF analyze(pr) = NoError THEN <<Entry("SUCCESS", "semantic_done", <<>>)>> ELSE <<>>)

\* what Parser.parse writes to the logger
parse_log(toks) == IF parse(toks).ok THEN <<Entry("SUCCESS", "parse_done", <<>>)>> ELSE <<>>

\* Interpreter.run: tokenize, parse, analyze; the first exception ends it
InterpreterRun(code) ==
    LET lexed == tokenize(code)
    IN  IF ~lexed.ok THEN [err |-> lexed.err, parsed |-> NoParsed, log |-> <<>>]
        ELSE
        LET p == parse(lexed.tokens)
        IN  IF ~p.ok THEN [err |-> p.err, parsed |-> NoParsed, log |-> <<>>]
            ELSE [err |-> analyze(p.result), parsed |-> p.result,
                  log |-> parse_log(lexed.tokens) \o analyze_log(p.result)]

(***************************************************************************)
(* Names used by the inputs of the model.                                  *)
(***************************************************************************)
N_size == <<"s","i","z","e">>
N_nm == <<"n","m">>
N_HIGH == <<"H","I","G","H">>
N_MEDIUM == <<"M","E","D","I","U","M">>
N_LOW == <<"L","O","W">>
N_crit == <<"c","r","i","t">>
N_Bloater == <<"B","l","o","a","t","e","r">>
N_X == <<"X">>
N_act == <<"a","c","t">>
N_T == <<"T">>
N_A == <<"A">>
N_B == <<"B">>
N_R == <<"R">>
NL == <<"\n">>
Sp == <<" ">>
Dot == <<".">>
\* the text "Smell.Feature OP TIER"
Cond3(smell, feature, op, tier) == smell \o Dot \o feature \o Sp \o op \o Sp \o tier

(***************************************************************************)
(* ExecutionEngine (motor_execucao.py).                                    *)
(***************************************************************************)
S_LimitesNaoDefinidos ==
    <<"L","i","m","i","t","e","s"," ","n","ã","o"," ","d","e","f","i","n","i","d","o","s">>
S_MuitoBaixo == <<"M","U","I","T","O"," ","B","A","I","X","O">>

\* sorted(..., key=item[1], reverse=True) is stable: an item goes after every
\* item already placed whose value is >= its own
InsertDesc(sorted, item) ==
    LET lower == {p \in DOMAIN sorted : sorted[p][2] < item[2]}
        at == IF lower = {} THEN Len(sorted) + 1
              ELSE CHOOSE p \in lower : \A q \in lower : p <= q
    IN  SubSeq(sorted, 1, at - 1) \o <<item>> \o SubSeq(sorted, at, Len(sorted))

RECURSIVE SortedDescFrom(_, _, _)
SortedDescFrom(items, i, acc) ==
    IF i > Len(items) THEN acc
    ELSE SortedDescFrom(items, i + 1, InsertDesc(acc, items[i]))

SortedDesc(items) == SortedDescFrom(items, 1, <<>>)

AcceptsTierStrict(valor_medido, valor_limite) == valor_medido > valor_limite
AcceptsTierReversed(valor_medido, valor_limite) == valor_medido <= valor_limite

\* motor_execucao.py:41  if valor_medido >= valor_limite
AcceptsTier(valor_medido, valor_limite) == valor_medido >= valor_limite

RECURSIVE ScanTiers(_, _, _)
ScanTiers(ordenados, i, valor_medido) ==
    IF i > Len(ordenados) THEN S_MuitoBaixo
    ELSE IF AcceptsTier(valor_medido, ordenados[i][2]) THEN Upper(ordenados[i][1])
    ELSE ScanTiers(ordenados, i + 1, valor_medido)

determinar_estado(lims, feature_name, valor_medido) ==
    IF ~HasKey(lims, feature_name) THEN S_LimitesNaoDefinidos
    ELSE ScanTiers(SortedDesc(Get(lims, feature_name)), 1, valor_medido)

\* the logger branch of avaliar_features (the pipeline always passes a logger)
avaliar_features(dd, lims) ==
    <<Entry("INFO", "features_header", <<>>)>>
    \o [i \in DOMAIN dd |->
            Entry("INFO", "feature", <<dd[i][1], determinar_estado(lims, dd[i][1], dd[i][2])>>)]
    \o <<Entry("INFO", "features_footer", <<>>)>>

(***************************************************************************)
(* SpecEngine: ExecutionEngine.avaliar_features on bounded inputs.         *)
(***************************************************************************)
TierNames == {N_HIGH, N_MEDIUM, N_LOW, N_crit}
TierValues == {1, 5, 10}
MeasuredValues == {0, 1, 5, 7, 10, 100}

TierDicts ==
    {d \in UNION {[1..n -> TierNames \X TierValues] : n \in 0..MaxTiers} : IsDict(d)}

TD_nm == <<<<N_LOW, 5>>>>

EngineLimites ==
    {<<>>, <<<<N_nm, TD_nm>>>>} \cup {<<<<N_size, td>>>> : td \in TierDicts}

EngineDados ==
    {<<>>} \cup {<<<<N_size, v>>>> : v \in MeasuredValues}
           \cup {<<<<N_nm, 5>>, <<N_size, v>>>> : v \in MeasuredValues}

InitEngine ==
    /\ pc = "engine"
    /\ dados \in EngineDados
    /\ limites \in EngineLimites
    /\ src = <<>> /\ dadosIn = <<>> /\ limitesIn = <<>> /\ program = <<>>
    /\ pos = 1 /\ tokens = <<>> /\ cursor = 0 /\ frame = NoFrame /\ err = NoError
    /\ parsed = NoParsed
    /\ logs = <<>>
    /\ printed = <<>>
    /\ outcome = "none"

EngineEval ==
    /\ pc = "engine"
    /\ logs' = logs \o avaliar_features(dados, limites)
    /\ pc' = "engine_done"
    /\ outcome' = "returned"
    /\ UNCHANGED <<inputVars, parserVars, dataVars, printed, err>>

NextEngine == EngineEval

SpecEngine == InitEngine /\ [][NextEngine]_vars

\* The tier the specification names: among the tiers whose value is <= the
\* measured value, one of greatest value, the earliest inserted among equals.
ExpectedState(lims, f, m) ==
    IF ~HasKey(lims, f) THEN S_LimitesNaoDefinidos
    ELSE LET td == Get(lims, f)
             ok == {i \in DOMAIN td : td[i][2] <= m}
         IN  IF ok = {} THEN S_MuitoBaixo
             ELSE Upper(td[CHOOSE i \in ok :
                              \A j \in ok : \/ td[j][2] < td[i][2]
                                            \/ (td[j][2] = td[i][2] /\ i <= j)][1])

TD_example == <<<<N_HIGH, 10>>, <<N_MEDIUM, 5>>, <<N_LOW, 1>>>>

StateLogged(f) ==
    LET i == CHOOSE k \in DOMAIN dados : dados[k][1] = f
    IN  logs[i + 1].args[2]

\* C1: after avaliar_features, the log holds one entry per measured feature, in
\* the order of the measured data, whose state is "Limites não definidos" without
\* a threshold entry, else the upper-cased first tier in descending value order
\* (insertion order among equals) whose value is <= the measured value, else
\* "MUITO BAIXO"; with {HIGH:10, MEDIUM:5, LOW:1}: 5 -> MEDIUM, 0 -> MUITO BAIXO,
\* 100 -> HIGH.
C1_TierOfFeature ==
    pc = "engine_done" =>
        /\ Len(logs) = Len(dados) + 2
        /\ \A i \in DOMAIN dados :
              logs[i + 1] = Entry("INFO", "feature",
                                  <<dados[i][1], ExpectedState(limites, dados[i][1], dados[i][2])>>)
        /\ (limites = <<<<N_size, TD_example>>>> /\ HasKey(dados, N_size)) =>
              /\ Get(dados, N_size) = 5 => StateLogged(N_size) = N_MEDIUM
              /\ Get(dados, N_size) = 0 => StateLogged(N_size) = S_MuitoBaixo
              /\ Get(dados, N_size) = 100 => StateLogged(N_size) = N_HIGH

\* the boundary case: measured 5 against {HIGH:10, MEDIUM:5, LOW:1}
C1_Witness ==
    /\ pc = "engine_done"
    /\ limites = <<<<N_size, TD_example>>>>
    /\ dados = <<<<N_nm, 5>>, <<N_size, 5>>>>
    /\ logs[2].args = <<N_nm, S_LimitesNaoDefinidos>>
    /\ logs[3].args = <<N_size, N_MEDIUM>>

\* The place of a returned state in the order of the tiers of td: the threshold
\* value of the tier of that (upper-cased) name, and for "MUITO BAIXO" a value
\* below every threshold of td.
TierRank(td, state) ==
    IF \E i \in DOMAIN td : Upper(td[i][1]) = state
    THEN td[CHOOSE i \in DOMAIN td : Upper(td[i][1]) = state][2]
    ELSE LET values == {td[i][2] : i \in DOMAIN td}
         IN  IF values = {} THEN 0
             ELSE (CHOOSE v \in values : \A w \in values : v <= w) - 1

\* C12: with the threshold map of a feature fixed, the tier of a greater measured
\* value is never strictly lower (by threshold value, "MUITO BAIXO" below every
\* tier) than the tier of a smaller one: the state logged for the measured value
\* is at least the state of every smaller value and at most the state of every
\* greater one.
C12_TierMonotonic ==
    (pc = "engine_done" /\ HasKey(dados, N_size) /\ HasKey(limites, N_size)) =>
        LET td == Get(limites, N_size)
            m == Get(dados, N_size)
        IN  \A v \in MeasuredValues :
               /\ v <= m => TierRank(td, determinar_estado(limites, N_size, v))
                               <= TierRank(td, StateLogged(N_size))
               /\ m <= v => TierRank(td, StateLogged(N_size))
                               <= TierRank(td, determinar_estado(limites, N_size, v))

\* thresholds inserted in ascending order; 7 is MEDIUM, 1 is LOW, 0 is below
\* every tier, 10 is HIGH
C12_Witness ==
    /\ pc = "engine_done"
    /\ limites = <<<<N_size, <<<<N_LOW, 1>>, <<N_MEDIUM, 5>>, <<N_HIGH, 10>>>>>>>>
    /\ dados = <<<<N_size, 7>>>>
    /\ StateLogged(N_size) = N_MEDIUM
    /\ determinar_estado(limites, N_size, 0) = S_MuitoBaixo
    /\ determinar_estado(limites, N_size, 1) = N_LOW
    /\ determinar_estado(limites, N_size, 10) = N_HIGH

(***************************************************************************)
(* RuleChecker (mainV2.py, mainv1.py).                                     *)
(***************************************************************************)
OP_GT == <<">">>
OP_GE == <<">", "=">>

TriggeredGeAsGt(operator, valor_medido, valor_limite) ==
    operator \in {OP_GT, OP_GE} /\ valor_medido > valor_limite

\* mainV2.py:78-79, mainv1.py:86-90
Triggered(operator, valor_medido, valor_limite) ==
    \/ (operator = OP_GT /\ valor_medido > valor_limite)
    \/ (operator = OP_GE /\ valor_medido >= valor_limite)

\* mainV2.py:71-79, once the condition is split: the lookups and the comparison.
\* The measured values and the thresholds are numbers, so .get() gives None
\* exactly for an absent key.
LookupAndCompare(feature_name, operator, limit_state, dd, lims) ==
    Bind(IF HasKey(lims, feature_name) THEN Get(lims, feature_name) ELSE <<>>,
         LAMBDA tiers :
           IF ~HasKey(dd, feature_name) \/ ~HasKey(tiers, limit_state)
           THEN [kind |-> "missing", feature |-> feature_name]
           ELSE [kind |-> IF Triggered(operator, Get(dd, feature_name), Get(tiers, limit_state))
                          THEN "alert" ELSE "quiet",
                 feature |-> feature_name,
                 valor_medido |-> Get(dd, feature_name),
                 operator |-> operator,
                 limit_state |-> limit_state,
                 valor_limite |-> Get(tiers, limit_state)])

\* mainV2.py:65-79: one pass of the loop body up to the point where it logs:
\* what the body decides for one rule (smell_name is assigned and never read)
EvalRule(rule, dd, lims) ==
    Bind(Split(rule.condition),
         LAMBDA parts :
           IF Len(parts) < 3 THEN [kind |-> "raise", exc |-> "IndexError"]
           ELSE Bind(SplitOn(parts[1], "."),
                     LAMBDA names :
                       IF Len(names) # 2 THEN [kind |-> "raise", exc |-> "ValueError"]
                       ELSE LookupAndCompare(Strip(names[2]), parts[2], parts[3], dd, lims)))

CaughtOnlyIndexError(exc) == exc = "IndexError"

\* mainV2.py:89  except Exception
CaughtV2(exc) == TRUE
\* mainv1.py:99  except (ValueError, IndexError)
CaughtV1(exc) == exc \in {"ValueError", "IndexError"}

\* mainV2.py:63-90: the loop; stops at a rule whose exception is not caught
RECURSIVE RulesLoopV2(_, _, _, _, _, _)
RulesLoopV2(rules, i, dd, lims, acc, detected) ==
    IF i > Len(rules) THEN [log |-> acc, detected |-> detected, raised |-> "none"]
    ELSE
    LET rule == rules[i]
    IN  Bind(EvalRule(rule, dd, lims), LAMBDA r :
        CASE r.kind = "raise" ->
                IF CaughtV2(r.exc)
                THEN RulesLoopV2(rules, i + 1, dd, lims,
                                 Append(acc, Entry("WARNING", "failure", <<rule.name, r.exc>>)),
                                 detected)
                ELSE [log |-> acc, detected |-> detected, raised |-> r.exc]
          [] r.kind = "missing" ->
                RulesLoopV2(rules, i + 1, dd, lims,
                            Append(acc, Entry("WARNING", "missing", <<rule.name, r.feature>>)),
                            detected)
          [] r.kind = "alert" ->
                RulesLoopV2(rules, i + 1, dd, lims,
                            Append(acc, Entry("WARNING", "alert",
                                              <<rule.name, r.feature, r.valor_medido, r.operator,
                                                r.limit_state, r.valor_limite, rule.action>>)),
                            detected + 1)
          [] OTHER -> RulesLoopV2(rules, i + 1, dd, lims, acc, detected))

SummaryCountsAlways(detected_smells) == Entry("INFO", "detected", <<detected_smells>>)

\* mainV2.py:92-95: the entry that closes the run
Summary(detected_smells) ==
    IF detected_smells = 0 THEN Entry("SUCCESS", "clean", <<>>)
    ELSE Entry("INFO", "detected", <<detected_smells>>)

\* mainV2.py:59-95
check_all_rules(rules, dd, lims) ==
    LET run == RulesLoopV2(rules, 1, dd, lims,
                           <<Entry("INFO", "rules_header", <<>>)>>, 0)
    IN  IF run.raised # "none" THEN run
        ELSE [run EXCEPT !.log = Append(run.log, Summary(run.detected))]

\* mainv1.py:65-101
RECURSIVE RulesLoopV1(_, _, _, _, _, _)
RulesLoopV1(rules, i, dd, lims, acc, detected) ==
    IF i > Len(rules) THEN [log |-> acc, detected |-> detected, raised |-> "none"]
    ELSE
    LET rule == rules[i]
    IN  Bind(EvalRule(rule, dd, lims), LAMBDA r :
        CASE r.kind = "raise" ->
                IF CaughtV1(r.exc)
                THEN RulesLoopV1(rules, i + 1, dd, lims,
                                 Append(acc, Entry("PRINT", "failure", <<rule.name, r.exc>>)),
                                 detected)
                ELSE [log |-> acc, detected |-> detected, raised |-> r.exc]
          [] r.kind = "missing" ->
                RulesLoopV1(rules, i + 1, dd, lims,
                            Append(acc, Entry("PRINT", "missing", <<rule.name, r.feature>>)),
                            detected)
          [] r.kind = "alert" ->
                RulesLoopV1(rules, i + 1, dd, lims,
                            acc \o <<Entry("PRINT", "alert", <<>>),
                                     Entry("PRINT", "alert_rule", <<rule.name>>),
                                     Entry("PRINT", "alert_reason",
                                           <<r.feature, r.valor_medido, r.operator,
                                             r.limit_state, r.valor_limite>>),
                                     Entry("PRINT", "alert_action", <<rule.action>>)>>,
                            detected + 1)
          [] OTHER -> RulesLoopV1(rules, i + 1, dd, lims, acc, detected))

\* mainv1.py:61-106
check_all_rules_v1(rules, dd, lims) ==
    LET run == RulesLoopV1(rules, 1, dd, lims,
                           <<Entry("PRINT", "rules_header", <<>>)>>, 0)
    IN  IF run.raised # "none" THEN run
        ELSE [run EXCEPT !.log =
                 (IF run.detected = 0 THEN Append(run.log, Entry("PRINT", "clean", <<>>))
                  ELSE run.log)
                 \o <<Entry("PRINT", "rules_footer", <<>>)>>]

(***************************************************************************)
(* SpecRules: RuleChecker.check_all_rules (both versions) on bounded       *)
(* inputs.                                                                 *)
(***************************************************************************)
OP_EQ == <<"=">>
SmellNamesR == {N_Bloater, N_X}
OpStrings == {OP_GT, OP_GE, OP_EQ}

WellFormedConditions ==
    {Cond3(sm, N_size, op, N_HIGH) : sm \in SmellNamesR, op \in OpStrings}
    \cup {Cond3(N_Bloater, N_nm, OP_GT, N_HIGH), Cond3(N_Bloater, N_size, OP_GE, N_LOW)}

MalformedConditions ==
    { N_Bloater \o Dot \o N_size \o Sp \o OP_GT,                       \* two parts
      N_size \o Sp \o OP_GT \o Sp \o N_HIGH,                           \* no dot
      N_X \o Dot \o N_Bloater \o Dot \o N_size \o Sp \o OP_GE \o Sp \o N_HIGH }  \* two dots

OtherConditions ==
    { \* the operator and "=" as separate parts: the tier is "="
      N_Bloater \o Dot \o N_size \o Sp \o OP_GT \o Sp \o OP_EQ \o Sp \o N_HIGH,
      \* runs of whitespace and a fourth part
      Sp \o N_Bloater \o Dot \o N_size \o <<" ", "\t">> \o OP_GE \o <<" ", " ">> \o N_HIGH
         \o Sp \o N_act }

RuleConditions == WellFormedConditions \cup MalformedConditions \cup OtherConditions

DigitChars == <<"1","2","3","4","5","6","7","8","9">>
RuleNameAt(i) == <<"R", DigitChars[i]>>

RuleLists ==
    UNION {{[i \in 1..n |-> Rule(RuleNameAt(i), cs[i], N_act)] : cs \in [1..n -> RuleConditions]}
           : n \in 0..MaxRules}

RulesDados ==
    {<<>>, <<<<N_size, 9>>>>, <<<<N_size, 10>>>>, <<<<N_size, 11>>>>,
     <<<<N_nm, 10>>, <<N_size, 10>>>>}

RulesLimites ==
    {<<>>,
     <<<<N_size, <<<<N_HIGH, 10>>>>>>>>,
     <<<<N_size, <<<<N_HIGH, 10>>, <<N_LOW, 11>>>>>>>>,
     <<<<N_size, <<<<OP_EQ, 9>>, <<N_HIGH, 10>>>>>>>>}

InitRules ==
    /\ pc = "rules"
    /\ parsed \in {[NoParsed EXCEPT !.rules = rl] : rl \in RuleLists}
    /\ dados \in RulesDados
    /\ limites \in RulesLimites
    /\ src = <<>> /\ dadosIn = <<>> /\ limitesIn = <<>> /\ program = <<>>
    /\ pos = 1 /\ tokens = <<>> /\ cursor = 0 /\ frame = NoFrame /\ err = NoError
    /\ logs = <<>>
    /\ printed = <<>>
    /\ outcome = "none"

\* RuleChecker(...).check_all_rules() of mainV2.py
CheckRulesV2 ==
    /\ pc = "rules"
    /\ LET run == check_all_rules(parsed.rules, dados, limites)
       IN  /\ logs' = logs \o run.log
           /\ outcome' = IF run.raised = "none" THEN "returned" ELSE run.raised
    /\ pc' = "rules_done"
    /\ UNCHANGED <<inputVars, parserVars, dataVars, printed, err>>

\* RuleChecker(...).check_all_rules() of mainv1.py
CheckRulesV1 ==
    /\ pc = "rules"
    /\ LET run == check_all_rules_v1(parsed.rules, dados, limites)
       IN  /\ printed' = printed \o run.log
           /\ outcome' = IF run.raised = "none" THEN "returned" ELSE run.raised
    /\ pc' = "rules_v1_done"
    /\ UNCHANGED <<inputVars, parserVars, dataVars, logs, err>>

NextRules == CheckRulesV2 \/ CheckRulesV1

SpecRules == InitRules /\ [][NextRules]_vars

\* the entries the run wrote: Logger.logs for mainV2, the printed lines for mainv1
RulesOutput == IF pc = "rules_done" THEN logs ELSE printed
RulesDone == pc \in {"rules_done", "rules_v1_done"}

AlertTag == IF pc = "rules_done" THEN "alert" ELSE "alert_rule"
AlertsOf(name) ==
    {k \in DOMAIN RulesOutput :
        RulesOutput[k].tag = AlertTag /\ RulesOutput[k].args[1] = name}

\* C2: a rule "Smell.Feature OP TIER" whose measured value m and threshold t are
\* both present emits (exactly one) alert iff (OP is ">" and m > t) or (OP is
\* ">=" and m >= t); any other operator never triggers; the smell name written
\* in the condition plays no part.
C2_TriggerIff ==
    RulesDone =>
        \A i \in DOMAIN parsed.rules :
          \A sm \in SmellNamesR, f \in {N_size, N_nm}, op \in OpStrings, t \in {N_HIGH, N_LOW} :
            ( /\ parsed.rules[i].condition = Cond3(sm, f, op, t)
              /\ HasKey(dados, f)
              /\ HasKey(limites, f)
              /\ HasKey(Get(limites, f), t) )
            => LET m == Get(dados, f)
                   th == Get(Get(limites, f), t)
                   n == Cardinality(AlertsOf(parsed.rules[i].name))
               IN  IF (op = OP_GT /\ m > th) \/ (op = OP_GE /\ m >= th)
                   THEN n = 1 ELSE n = 0

\* ">=" at equality triggers under a smell name no smell was declared with,
\* next to a ">" rule at equality that does not
C2_Witness ==
    /\ pc = "rules_done"
    /\ Len(parsed.rules) = 2
    /\ parsed.rules[1].condition = Cond3(N_X, N_size, OP_GE, N_HIGH)
    /\ parsed.rules[2].condition = Cond3(N_Bloater, N_size, OP_GT, N_HIGH)
    /\ dados = <<<<N_size, 10>>>>
    /\ limites = <<<<N_size, <<<<N_HIGH, 10>>>>>>>>
    /\ AlertsOf(RuleNameAt(1)) = {2}
    /\ AlertsOf(RuleNameAt(2)) = {}

\* A rule that cannot be evaluated: fewer than 3 whitespace-separated parts, a
\* first part that is not exactly two dot-separated names, a feature absent from
\* the measured data, or a tier absent from the feature's thresholds.
Failing(rule) ==
    LET parts == Split(rule.condition)
    IN  \/ Len(parts) < 3
        \/ Len(SplitOn(parts[1], ".")) # 2
        \/ LET f == SplitOn(parts[1], ".")[2]
           IN  \/ ~HasKey(dados, f)
               \/ ~HasKey(limites, f)
               \/ ~HasKey(Get(limites, f), parts[3])

NotFailing(rule) == ~Failing(rule)
IsRuleWarning(e) == e.tag \in {"missing", "failure"}
NotRuleWarning(e) == ~IsRuleWarning(e)

RunWithout ==
    IF pc = "rules_done"
    THEN check_all_rules(SelectSeq(parsed.rules, NotFailing), dados, limites)
    ELSE check_all_rules_v1(SelectSeq(parsed.rules, NotFailing), dados, limites)

\* C4: check_all_rules never raises; the warnings it writes are one per failing
\* rule, in declaration order, and a failing rule has no alert; with the warnings
\* taken out, what it writes is what it writes for the list without the failing
\* rules.
C4_FailuresIsolated ==
    RulesDone =>
        /\ outcome = "returned"
        /\ LET warned == SelectSeq(RulesOutput, IsRuleWarning)
               failing == SelectSeq(parsed.rules, Failing)
           IN  /\ Len(warned) = Len(failing)
               /\ \A k \in DOMAIN warned : warned[k].args[1] = failing[k].name
        /\ \A i \in DOMAIN parsed.rules :
              Failing(parsed.rules[i]) => AlertsOf(parsed.rules[i].name) = {}
        /\ SelectSeq(RulesOutput, NotRuleWarning) = RunWithout.log

\* a malformed rule (no dot in its first part) ahead of a rule that triggers
C4_Witness ==
    /\ pc = "rules_done"
    /\ Len(parsed.rules) = 2
    /\ parsed.rules[1].condition = N_size \o Sp \o OP_GT \o Sp \o N_HIGH
    /\ parsed.rules[2].condition = Cond3(N_Bloater, N_size, OP_GT, N_HIGH)
    /\ dados = <<<<N_size, 11>>>>
    /\ limites = <<<<N_size, <<<<N_HIGH, 10>>>>>>>>
    /\ logs[2] = Entry("WARNING", "failure", <<RuleNameAt(1), "ValueError">>)
    /\ logs[3].tag = "alert" /\ logs[3].args[1] = RuleNameAt(2)
    /\ logs[4] = Entry("INFO", "detected", <<1>>)

IsAlert(e) == e.tag = "alert"
IsSummary(e) == e.tag \in {"clean", "detected"}

\* C13: check_all_rules of mainV2 closes its entries with one summary: "clean"
\* iff the run wrote no alert (also when it only wrote warnings for rules it
\* skipped), else the count of the alerts the run wrote.
C13_SummaryCountsAlerts ==
    pc = "rules_done" =>
        LET alerts == Len(SelectSeq(logs, IsAlert))
            last == logs[Len(logs)]
        IN  /\ Len(SelectSeq(logs, IsSummary)) = 1
            /\ IsSummary(last)
            /\ last.tag = "clean" <=> alerts = 0
            /\ last.tag = "clean" => last = Entry("SUCCESS", "clean", <<>>)
            /\ last.tag = "detected" => last = Entry("INFO", "detected", <<alerts>>)

\* two rules, both skipped with a warning: the run is reported clean
C13_Witness ==
    /\ pc = "rules_done"
    /\ Len(parsed.rules) = 2
    /\ Len(logs) = 4
    /\ IsRuleWarning(logs[2]) /\ logs[2].tag = "missing"
    /\ IsRuleWarning(logs[3]) /\ logs[3].tag = "failure"
    /\ logs[4] = Entry("SUCCESS", "clean", <<>>)

(***************************************************************************)
(* SpecInterp: Parser.parse and SemanticAnalyzer.analyze on the token      *)
(* sequences of bounded lists of declarations, in any order.               *)
(***************************************************************************)
Decl(kind, name, extends, feature, toks) ==
    [kind |-> kind, name |-> name, extends |-> extends, feature |-> feature, toks |-> toks]

TypeDecl(name) == Decl("smelltype", name, PyNone, <<>>, <<>>)
SmellDecl(name, extends, feature) == Decl("smell", name, extends, feature, <<>>)
RuleDecl(name, condition) == Decl("rule", name, PyNone, <<>>, condition)
RawTokens(toks) == Decl("raw", <<>>, PyNone, <<>>, toks)

\* the tokens the lexer gives for a keyword, an identifier and the punctuation
KwTok(kw) == Token(Upper(kw), kw)
IdTok(name) == Token(TY_ID, name)
OpTok(c) == Token(TY_OPERATOR, <<c>>)
DotTok == Token(TY_DOT, <<".">>)
CommaTok == Token(TY_COMMA, <<",">>)
LBraceTok == Token(TY_LBRACE, <<"{">>)
RBraceTok == Token(TY_RBRACE, <<"}">>)

N_big == <<"b","i","g">>
N_now == <<"n","o","w">>
N_zz == <<"z","z">>

\* the tokens of "Smell.Feature > TIER"
RefTokens(smell, feature, tier) ==
    <<IdTok(smell), DotTok, IdTok(feature), OpTok(">"), IdTok(tier)>>

\* the tokens of one declaration as it is written in the grammar
TokensOfDecl(d) ==
    CASE d.kind = "smelltype" -> <<KwTok(KW_smelltype), IdTok(d.name)>>
      [] d.kind = "smell" ->
            <<KwTok(KW_smell), IdTok(d.name)>>
            \o (IF d.extends # PyNone THEN <<KwTok(KW_extends), IdTok(d.extends)>> ELSE <<>>)
            \o <<LBraceTok, KwTok(KW_feature), IdTok(d.feature), KwTok(KW_is),
                 KwTok(KW_Interval), KwTok(KW_with), KwTok(KW_threshold),
                 IdTok(N_HIGH), CommaTok, IdTok(N_LOW),
                 KwTok(KW_symptom), IdTok(N_big), RBraceTok>>
      [] d.kind = "rule" ->
            <<KwTok(KW_rule), IdTok(d.name), KwTok(KW_when)>> \o d.toks
            \o <<KwTok(KW_then), IdTok(N_act), IdTok(N_now)>>
      [] OTHER -> d.toks

RECURSIVE TokensFrom(_, _)
TokensFrom(decls, i) ==
    IF i > Len(decls) THEN <<>> ELSE TokensOfDecl(decls[i]) \o TokensFrom(decls, i + 1)

TokensOf(decls) == TokensFrom(decls, 1)

DeclMenu ==
    { TypeDecl(N_T), TypeDecl(N_A),
      SmellDecl(N_A, PyNone, N_size), SmellDecl(N_A, N_T, N_nm),
      SmellDecl(N_B, N_T, N_size), SmellDecl(N_B, PyNone, N_nm),
      RuleDecl(N_R, RefTokens(N_A, N_size, N_HIGH)),
      RuleDecl(N_R, RefTokens(N_B, N_size, N_HIGH)),
      RuleDecl(N_A, RefTokens(N_A, N_size, N_HIGH)),
      RuleDecl(N_R, RefTokens(N_A, N_nm, N_HIGH)),
      RuleDecl(N_R, <<IdTok(N_size), OpTok(">"), IdTok(N_HIGH)>>) }

DeclLists == UNION {[1..n -> DeclMenu] : n \in 0..MaxDecls}

\* token sequences the parser rejects
SpecialPrograms ==
    { <<TypeDecl(N_T), RawTokens(<<KwTok(KW_smell), IdTok(N_A), LBraceTok>>)>>,
      <<RawTokens(<<KwTok(KW_feature), IdTok(N_size)>>)>>,
      <<RawTokens(<<KwTok(KW_smell), IdTok(N_A), LBraceTok, KwTok(KW_rule), RBraceTok>>)>>,
      <<RawTokens(<<KwTok(KW_rule), IdTok(N_R), KwTok(KW_when)>> \o RefTokens(N_A, N_size, N_HIGH)
                  \o <<KwTok(KW_then)>>)>> }

Programs == DeclLists \cup SpecialPrograms

InitInterp ==
    /\ pc = "parse"
    /\ program \in Programs
    /\ tokens = TokensOf(program)
    /\ src = <<>> /\ dadosIn = <<>> /\ limitesIn = <<>>
    /\ pos = 1 /\ cursor = 0 /\ frame = NoFrame /\ parsed = NoParsed
    /\ dados = <<>> /\ limites = <<>>
    /\ logs = <<>> /\ printed = <<>>
    /\ err = NoError
    /\ outcome = "none"

\* one pass of the loop of Parser.parse
ParseDecl ==
    /\ pc = "parse"
    /\ HasCurrent(tokens, cursor)
    /\ \E r \in {ParseDeclaration(tokens, cursor, parsed)} :
           /\ cursor' = r.idx
           /\ parsed' = r.result
           /\ IF r.ok THEN UNCHANGED <<pc, err, outcome>>
              ELSE /\ err' = r.err
                   /\ outcome' = r.err.type
                   /\ pc' = "interp_done"
    /\ UNCHANGED <<inputVars, pos, tokens, frame, dataVars, logs, printed>>

\* the loop of Parser.parse ends: parse returns self.result
ParseEnd ==
    /\ pc = "parse"
    /\ ~HasCurrent(tokens, cursor)
    /\ logs' = Append(logs, Entry("SUCCESS", "parse_done", <<>>))
    /\ pc' = "analyze"
    /\ UNCHANGED <<inputVars, parserVars, dataVars, printed, err, outcome>>

\* SemanticAnalyzer(parsed_data).analyze()
Analyze ==
    /\ pc = "analyze"
    /\ err' = analyze(parsed)
    /\ logs' = logs \o analyze_log(parsed)
    /\ outcome' = IF analyze(parsed) = NoError THEN "returned" ELSE "SemanticError"
    /\ pc' = "interp_done"
    /\ UNCHANGED <<inputVars, parserVars, dataVars, printed>>

NextInterp == ParseDecl \/ ParseEnd \/ Analyze

SpecInterp == InitInterp /\ [][NextInterp]_vars

\* the run got through the parser and analyze has ended
Analyzed == pc = "interp_done" /\ outcome \in {"returned", "SemanticError"}

DeclsOf(kind) == {i \in DOMAIN program : program[i].kind = kind}
DuplicateIn(kind) ==
    \E i, j \in DeclsOf(kind) : i < j /\ program[i].name = program[j].name
AnyDuplicate == DuplicateIn("smelltype") \/ DuplicateIn("smell") \/ DuplicateIn("rule")

DuplicateChecks == {"duplicate_smelltype", "duplicate_smell", "duplicate_rule"}

\* C8: analyze raises a duplicate-name SemanticError iff a name occurs twice among
\* the smelltype declarations, or twice among the smell declarations, or twice
\* among the rule declarations; one name used by a smelltype, a smell and a rule
\* is no duplicate.
C8_DuplicateIff ==
    Analyzed =>
        /\ (err.type = "SemanticError" /\ err.check \in DuplicateChecks) <=> AnyDuplicate
        /\ err.check = "duplicate_smelltype" => DuplicateIn("smelltype")
        /\ err.check = "duplicate_smell" => DuplicateIn("smell")
        /\ err.check = "duplicate_rule" => DuplicateIn("rule")

\* smelltype A, smell A and rule A in one program: analyze returns
C8_Witness ==
    /\ Analyzed
    /\ program = <<TypeDecl(N_A), SmellDecl(N_A, PyNone, N_size),
                   RuleDecl(N_A, RefTokens(N_A, N_size, N_HIGH))>>
    /\ parsed.smell_types = <<N_A>>
    /\ parsed.smells[1].name = N_A
    /\ parsed.rules[1].name = N_A
    /\ outcome = "returned"
    /\ err = NoError

\* a smell that extends a name no smelltype declaration has, anywhere in the program
UndeclaredExtends ==
    \E i \in DeclsOf("smell") :
       /\ program[i].extends # PyNone
       /\ \A j \in DeclsOf("smelltype") : program[j].name # program[i].extends

\* C9: without duplicate names, analyze raises the extends SemanticError iff some
\* smell extends a name that no smelltype declaration of the program has; a
\* smelltype declared after the smell that extends it counts as declared.
C9_ExtendsValidity ==
    (Analyzed /\ ~AnyDuplicate) =>
        /\ UndeclaredExtends => (outcome = "SemanticError" /\ err.check = "extends")
        /\ ~UndeclaredExtends => err.check # "extends"

\* the smelltype is declared after the smell that extends it
C9_Witness ==
    /\ Analyzed
    /\ program = <<SmellDecl(N_B, N_T, N_size), TypeDecl(N_T)>>
    /\ parsed.smells[1].extends = N_T
    /\ outcome = "returned"

RefNames == {N_A, N_B, N_size, N_nm}
\* the rule declaration's condition is written Smell.Feature > TIER
RefersTo(d, smell, feature) == d.kind = "rule" /\ d.toks = RefTokens(smell, feature, N_HIGH)
\* some smell declaration of that name declares the feature
DeclaresFeature(smell, feature) ==
    \E i \in DeclsOf("smell") : program[i].name = smell /\ program[i].feature = feature
BadReference(d) ==
    \E sm \in RefNames, f \in RefNames : RefersTo(d, sm, f) /\ ~DeclaresFeature(sm, f)

\* C10: a rule whose condition starts with Name.Name makes analyze raise
\* SemanticError unless Name is a declared smell and the second name a feature of
\* that same smell; the rule-reference error always names such a rule, never a
\* rule whose condition does not start with the pattern; with no duplicate, no
\* undeclared extends and no such rule, analyze returns.
C10_RuleReferences ==
    Analyzed =>
        /\ (\E i \in DeclsOf("rule") : BadReference(program[i])) => outcome = "SemanticError"
        /\ err.check \in {"rule_smell", "rule_feature"} =>
              \E i \in DeclsOf("rule") :
                 /\ program[i].name = err.expected
                 /\ BadReference(program[i])
        /\ ( /\ ~AnyDuplicate
             /\ ~UndeclaredExtends
             /\ \A i \in DeclsOf("rule") : ~BadReference(program[i]) ) => outcome = "returned"

\* rule R refers to A.nm; nm is a feature of smell B only
C10_Witness ==
    /\ Analyzed
    /\ program = <<SmellDecl(N_A, PyNone, N_size), SmellDecl(N_B, PyNone, N_nm),
                   RuleDecl(N_R, RefTokens(N_A, N_nm, N_HIGH))>>
    /\ parsed.rules[1].condition = Cond3(N_A, N_nm, OP_GT, N_HIGH)
    /\ err = SemanticError("rule_feature", N_R, N_nm)

\* Parser.parse has returned its result
ParseAccepted == pc \in {"analyze", "interp_done"} /\ err.type # "SyntaxError"
\* the declarations of one kind, in the order of the source
DeclSeq(kind) == SelectSeq(program, LAMBDA d : d.kind = kind)

\* C11: when parse accepts the tokens, smell_types, smells and rules have as many
\* entries as the source has smelltype, smell and rule declarations, each list in
\* source order, duplicates included; every program written in the grammar is
\* accepted.
C11_ParsedListsMatchDeclarations ==
    /\ (pc \in {"analyze", "interp_done"} /\ program \in DeclLists) => ParseAccepted
    /\ ParseAccepted =>
        /\ Len(parsed.smell_types) = Len(DeclSeq("smelltype"))
        /\ Len(parsed.smells) = Len(DeclSeq("smell"))
        /\ Len(parsed.rules) = Len(DeclSeq("rule"))
        /\ \A i \in DOMAIN parsed.smell_types : parsed.smell_types[i] = DeclSeq("smelltype")[i].name
        /\ \A i \in DOMAIN parsed.smells :
              /\ parsed.smells[i].name = DeclSeq("smell")[i].name
              /\ parsed.smells[i].extends = DeclSeq("smell")[i].extends
              /\ Len(parsed.smells[i].features) = 1
              /\ parsed.smells[i].features[1].name = DeclSeq("smell")[i].feature
        /\ \A i \in DOMAIN parsed.rules :
              /\ parsed.rules[i].name = DeclSeq("rule")[i].name
              /\ Split(parsed.rules[i].condition)[1] =
                    IF Len(DeclSeq("rule")[i].toks) = 5
                    THEN DeclSeq("rule")[i].toks[1].value \o Dot \o DeclSeq("rule")[i].toks[3].value
                    ELSE DeclSeq("rule")[i].toks[1].value

\* the same smelltype declared twice, around a smell: both entries are kept
C11_Witness ==
    /\ pc = "analyze"
    /\ program = <<TypeDecl(N_T), SmellDecl(N_B, N_T, N_size), TypeDecl(N_T)>>
    /\ parsed.smell_types = <<N_T, N_T>>
    /\ Len(parsed.smells) = 1 /\ parsed.smells[1].name = N_B
    /\ parsed.rules = <<>>
    /\ cursor = Len(tokens)

\* C15: analyze reports the first violation in the order duplicate smelltype,
\* duplicate smell, duplicate rule, undeclared extends target, bad rule
\* reference: a duplicate rule name wins over an undeclared extends target, and
\* an undeclared extends target wins over a bad rule reference.
C15_FirstViolationInOrder ==
    Analyzed =>
        LET bad_rule == \E i \in DeclsOf("rule") : BadReference(program[i])
        IN  /\ DuplicateIn("smelltype") => err.check = "duplicate_smelltype"
            /\ (~DuplicateIn("smelltype") /\ DuplicateIn("smell")) => err.check = "duplicate_smell"
            /\ (~DuplicateIn("smelltype") /\ ~DuplicateIn("smell") /\ DuplicateIn("rule")) =>
                   err.check = "duplicate_rule"
            /\ (~AnyDuplicate /\ UndeclaredExtends) => err.check = "extends"
            /\ (~AnyDuplicate /\ ~UndeclaredExtends /\ bad_rule) =>
                   err.check \in {"rule_smell", "rule_feature"}
            /\ (AnyDuplicate \/ UndeclaredExtends \/ bad_rule) =>
                   /\ outcome = "SemanticError"
                   /\ logs = <<Entry("SUCCESS", "parse_done", <<>>),
                               Entry("INFO", "semantic_start", <<>>)>>

\* a smell extending the undeclared T, ahead of two rules named R, the first with
\* a bad reference: the duplicate rule name is what is reported
C15_Witness ==
    /\ Analyzed
    /\ program = <<SmellDecl(N_B, N_T, N_size), RuleDecl(N_R, RefTokens(N_A, N_size, N_HIGH)),
                   RuleDecl(N_R, RefTokens(N_B, N_size, N_HIGH))>>
    /\ UndeclaredExtends
    /\ BadReference(program[2])
    /\ err = SemanticError("duplicate_rule", <<>>, N_R)

(***************************************************************************)
(* DataValidator (mainV2.py; mainv1.py makes the same two checks).         *)
(***************************************************************************)
ValidationError(check, filename, feature_name) ==
    Error("ValidationError", check, filename, feature_name)

F_dados == <<"d","a","d","o","s",".","j","s","o","n">>
F_limites == <<"l","i","m","i","t","e","s",".","j","s","o","n">>

\* mainV2.py:33  {feature.name for smell in parsed_data.smells for feature in smell.features}
declared_features(pr) ==
    UNION {{pr.smells[k].features[i].name : i \in DOMAIN pr.smells[k].features}
           : k \in DOMAIN pr.smells}

\* DataValidator.__init__
validator_init(pr) ==
    IF declared_features(pr) = {}
    THEN ValidationError("no_feature_declared", <<>>, <<>>)
    ELSE NoError

IsUndeclaredOnlyIfFirst(declared, data, i) == i = 1 /\ data[i][1] \notin declared

\* mainV2.py:45
IsUndeclared(declared, data, i) == data[i][1] \notin declared

\* DataValidator._check_keys
check_keys(declared, data, filename) ==
    LET bad == {i \in DOMAIN data : IsUndeclared(declared, data, i)}
    IN  IF bad = {} THEN NoError
        ELSE ValidationError("undeclared_key", filename,
                             data[CHOOSE i \in bad : \A j \in bad : i <= j][1])

\* DataValidator.validate: the exception it raises, NoError if it returns
validate(declared, dados_data, limites_data) ==
    IF check_keys(declared, dados_data, F_dados) # NoError
    THEN check_keys(declared, dados_data, F_dados)
    ELSE check_keys(declared, limites_data, F_limites)

\* DataValidator(parsed_data, logger).validate(dados_data, limites_data): the
\* entries written and the exception raised
run_validator(pr, dados_data, limites_data) ==
    IF validator_init(pr) # NoError THEN [err |-> validator_init(pr), log |-> <<>>]
    ELSE LET e == validate(declared_features(pr), dados_data, limites_data)
         IN  [err |-> e,
              log |-> <<Entry("INFO", "validate_start", <<>>)>>
                      \o (IF e = NoError THEN <<Entry("SUCCESS", "validate_done", <<>>)>>
                          ELSE <<>>)]

(***************************************************************************)
(* SpecValidate: DataValidator on bounded programs and JSON objects.       *)
(***************************************************************************)
SmellWith(name, feature_names) ==
    Smell(name, PyNone, [i \in DOMAIN feature_names |-> Feature(feature_names[i], <<N_HIGH>>)],
          PyNone, PyNone)

ValidateSmells ==
    { <<>>,
      <<SmellWith(N_A, <<>>)>>,
      <<SmellWith(N_A, <<N_size>>)>>,
      <<SmellWith(N_A, <<N_size, N_nm>>)>>,
      <<SmellWith(N_A, <<N_size>>), SmellWith(N_B, <<N_nm>>)>> }

JsonKeys == {N_size, N_nm, N_zz}
KeyLists == {ks \in UNION {[1..n -> JsonKeys] : n \in 0..MaxKeys} :
                \A i, j \in DOMAIN ks : ks[i] = ks[j] => i = j}

ValidateDados == {[i \in DOMAIN ks |-> <<ks[i], 7>>] : ks \in KeyLists}
ValidateLimites == {[i \in DOMAIN ks |-> <<ks[i], TD_nm>>] : ks \in KeyLists}

InitValidate ==
    /\ pc = "validate"
    /\ parsed \in {[NoParsed EXCEPT !.smells = sm] : sm \in ValidateSmells}
    /\ dados \in ValidateDados
    /\ limites \in ValidateLimites
    /\ src = <<>> /\ dadosIn = <<>> /\ limitesIn = <<>> /\ program = <<>>
    /\ pos = 1 /\ tokens = <<>> /\ cursor = 0 /\ frame = NoFrame /\ err = NoError
    /\ logs = <<>>
    /\ printed = <<>>
    /\ outcome = "none"

\* DataValidator(parsed, logger).validate(dados_data=dados, limites_data=limites)
Validate ==
    /\ pc = "validate"
    /\ LET run == run_validator(parsed, dados, limites)
       IN  /\ logs' = logs \o run.log
           /\ err' = run.err
           /\ outcome' = IF run.err = NoError THEN "returned" ELSE run.err.type
    /\ pc' = "validate_done"
    /\ UNCHANGED <<inputVars, parserVars, dataVars, printed>>

NextValidate == Validate

SpecValidate == InitValidate /\ [][NextValidate]_vars

\* the feature names some smell of the program declares
DeclaredNames ==
    {f \in JsonKeys : \E k \in DOMAIN parsed.smells : \E i \in DOMAIN parsed.smells[k].features :
                         parsed.smells[k].features[i].name = f}
AllKeysDeclared == Keys(dados) \subseteq DeclaredNames /\ Keys(limites) \subseteq DeclaredNames
Accepted == outcome = "returned" /\ err = NoError

\* C7 as claimed: the validator accepts exactly when every key of both objects is
\* a declared feature name.
C7_AcceptsIffKeysDeclared ==
    pc = "validate_done" => (Accepted <=> AllKeysDeclared)

\* C7, amended: the validator accepts exactly when the program declares at least
\* one feature and every key of both objects is a declared feature name; objects
\* that cover only some of the declared features, or none, are accepted; any
\* undeclared key, and a program without features, raise ValidationError.
C7_AcceptsIffDeclaredAndNonEmpty ==
    pc = "validate_done" =>
        /\ Accepted <=> (DeclaredNames # {} /\ AllKeysDeclared)
        /\ ~Accepted => (outcome = "ValidationError" /\ err.type = "ValidationError")
        /\ (err.check = "undeclared_key") =>
              /\ err.found \in (Keys(dados) \cup Keys(limites)) \ DeclaredNames
              /\ err.expected = (IF Keys(dados) \subseteq DeclaredNames
                                 THEN F_limites ELSE F_dados)

\* two features declared, the measured data covers one and the thresholds none
C7_Witness ==
    /\ pc = "validate_done"
    /\ DeclaredNames = {N_size, N_nm}
    /\ dados = <<<<N_nm, 7>>>>
    /\ limites = <<>>
    /\ Accepted
    /\ logs = <<Entry("INFO", "validate_start", <<>>), Entry("SUCCESS", "validate_done", <<>>)>>

(***************************************************************************)
(* run_pipeline_from_content (mainV2.py).                                  *)
(***************************************************************************)
CaughtWithoutValidationError(exc_type) ==
    exc_type \in {"FileNotFoundError", "SyntaxError", "SemanticError", "ExecutionError"}

\* mainV2.py:148: the exceptions the pipeline catches
CaughtByPipeline(exc_type) ==
    exc_type \in {"FileNotFoundError", "SyntaxError", "SemanticError", "ExecutionError",
                  "ValidationError"}

\* a JSON document: either the text of an object or text json.loads cannot parse
JsonObject(d) == [wellformed |-> TRUE, object |-> d]
JsonMalformed == [wellformed |-> FALSE, object |-> <<>>]

\* json.loads
json_loads(doc) ==
    IF doc.wellformed THEN [err |-> NoError, value |-> doc.object]
    ELSE [err |-> Error("JSONDecodeError", "json.loads", <<>>, <<>>), value |-> <<>>]

N_threshold_high == <<"t","h","r","e","s","h","o","l","d","_","h","i","g","h">>
N_Q == <<"Q">>

\* the rule of the spec's example, with >=
SRC_ge ==
    <<"s","m","e","l","l"," ","B","l","o","a","t","e","r"," ","{","\n"," ","f","e","a","t",
      "u","r","e"," ","s","i","z","e"," ","i","s"," ","I","n","t","e","r","v","a","l"," ","w",
      "i","t","h"," ","t","h","r","e","s","h","o","l","d"," ","t","h","r","e","s","h","o","l",
      "d","_","h","i","g","h","\n","}","\n","r","u","l","e"," ","R"," ","w","h","e","n"," ",
      "B","l","o","a","t","e","r",".","s","i","z","e"," ",">","="," ","t","h","r","e","s","h",
      "o","l","d","_","h","i","g","h"," ","t","h","e","n"," ","a","c","t","\n">>

\* the same rule without blanks around >=
SRC_ge_glued ==
    <<"s","m","e","l","l"," ","B","l","o","a","t","e","r"," ","{","\n"," ","f","e","a","t",
      "u","r","e"," ","s","i","z","e"," ","i","s"," ","I","n","t","e","r","v","a","l"," ","w",
      "i","t","h"," ","t","h","r","e","s","h","o","l","d"," ","t","h","r","e","s","h","o","l",
      "d","_","h","i","g","h","\n","}","\n","r","u","l","e"," ","R"," ","w","h","e","n"," ",
      "B","l","o","a","t","e","r",".","s","i","z","e",">","=","t","h","r","e","s","h","o","l",
      "d","_","h","i","g","h"," ","t","h","e","n"," ","a","c","t","\n">>

\* the same rule with >
SRC_gt ==
    <<"s","m","e","l","l"," ","B","l","o","a","t","e","r"," ","{","\n"," ","f","e","a","t",
      "u","r","e"," ","s","i","z","e"," ","i","s"," ","I","n","t","e","r","v","a","l"," ","w",
      "i","t","h"," ","t","h","r","e","s","h","o","l","d"," ","t","h","r","e","s","h","o","l",
      "d","_","h","i","g","h","\n","}","\n","r","u","l","e"," ","R"," ","w","h","e","n"," ",
      "B","l","o","a","t","e","r",".","s","i","z","e"," ",">"," ","t","h","r","e","s","h","o",
      "l","d","_","h","i","g","h"," ","t","h","e","n"," ","a","c","t","\n">>

\* a rule that compares with a number: no token class matches a digit
SRC_number ==
    <<"s","m","e","l","l"," ","B","l","o","a","t","e","r"," ","{","\n"," ","f","e","a","t",
      "u","r","e"," ","s","i","z","e"," ","i","s"," ","I","n","t","e","r","v","a","l"," ","w",
      "i","t","h"," ","t","h","r","e","s","h","o","l","d"," ","t","h","r","e","s","h","o","l",
      "d","_","h","i","g","h","\n","}","\n","r","u","l","e"," ","R"," ","w","h","e","n"," ",
      "B","l","o","a","t","e","r",".","s","i","z","e"," ",">"," ","1","0"," ","t","h","e","n",
      " ","a","c","t","\n">>

\* an unrecognised character after the first declaration
SRC_semicolon ==
    <<"s","m","e","l","l","t","y","p","e"," ","T",";","\n">>

\* a feature without its thresholds
SRC_syntax ==
    <<"s","m","e","l","l"," ","B","l","o","a","t","e","r"," ","{","\n"," ","f","e","a","t",
      "u","r","e"," ","s","i","z","e"," ","i","s"," ","I","n","t","e","r","v","a","l","\n",
      "}","\n">>

\* a smell that extends an undeclared smell type
SRC_semantic ==
    <<"s","m","e","l","l"," ","B","l","o","a","t","e","r"," ","e","x","t","e","n","d","s"," ",
      "T"," ","{","\n"," ","f","e","a","t","u","r","e"," ","s","i","z","e"," ","i","s"," ",
      "I","n","t","e","r","v","a","l"," ","w","i","t","h"," ","t","h","r","e","s","h","o","l",
      "d"," ","t","h","r","e","s","h","o","l","d","_","h","i","g","h","\n","}","\n">>

\* a program that declares no feature
SRC_nofeature ==
    <<"s","m","e","l","l","t","y","p","e"," ","T","\n">>

\* a comment, a smell type, two features and two rules
SRC_two ==
    <<"/","/"," ","c","\n","s","m","e","l","l","t","y","p","e"," ","T","\n","s","m","e","l",
      "l"," ","B","l","o","a","t","e","r"," ","e","x","t","e","n","d","s"," ","T"," ","{",
      "\n"," ","f","e","a","t","u","r","e"," ","s","i","z","e"," ","i","s"," ","I","n","t",
      "e","r","v","a","l"," ","w","i","t","h"," ","t","h","r","e","s","h","o","l","d"," ","t",
      "h","r","e","s","h","o","l","d","_","h","i","g","h","\n"," ","f","e","a","t","u","r",
      "e"," ","n","m"," ","i","s"," ","I","n","t","e","r","v","a","l"," ","w","i","t","h"," ",
      "t","h","r","e","s","h","o","l","d"," ","t","h","r","e","s","h","o","l","d","_","h","i",
      "g","h","\n","}","\n","r","u","l","e"," ","R"," ","w","h","e","n"," ","B","l","o","a",
      "t","e","r",".","s","i","z","e"," ",">"," ","t","h","r","e","s","h","o","l","d","_","h",
      "i","g","h"," ","t","h","e","n"," ","a","c","t"," ","n","o","w","\n","r","u","l","e",
      " ","Q"," ","w","h","e","n"," ","B","l","o","a","t","e","r",".","n","m"," ","="," ","t",
      "h","r","e","s","h","o","l","d","_","h","i","g","h"," ","t","h","e","n"," ","a","c","t",
      "\n">>

Sources == {<<>>, SRC_ge, SRC_ge_glued, SRC_gt, SRC_number, SRC_semicolon, SRC_syntax, SRC_semantic, SRC_nofeature, SRC_two}

TD_high == <<<<N_threshold_high, 10>>>>

DadosDocs ==
    { JsonObject(<<<<N_size, 10>>>>), JsonObject(<<<<N_size, 12>>>>),
      JsonObject(<<<<N_size, 10>>, <<N_nm, 10>>>>), JsonObject(<<<<N_size, 10>>, <<N_zz, 1>>>>),
      JsonObject(<<>>), JsonMalformed }

LimitesDocs ==
    { JsonObject(<<<<N_size, TD_high>>>>), JsonObject(<<<<N_nm, TD_high>>, <<N_size, TD_high>>>>),
      JsonObject(<<<<N_zz, TD_high>>>>), JsonMalformed }

Init ==
    /\ pc = "pipeline"
    /\ src \in Sources
    /\ dadosIn \in DadosDocs
    /\ limitesIn \in LimitesDocs
    /\ program = <<>>
    /\ pos = 1 /\ tokens = <<>> /\ cursor = 0 /\ frame = NoFrame /\ parsed = NoParsed
    /\ dados = <<>> /\ limites = <<>>
    /\ logs = <<>> /\ printed = <<>>
    /\ err = NoError
    /\ outcome = "none"

\* how a stage ends: its entries are logged; an exception the pipeline catches
\* is logged as the ERROR entry and the logs are returned, any other exception
\* leaves run_pipeline_from_content and nothing is returned
StageEnds(log, e, next_pc) ==
    /\ err' = e
    /\ logs' = logs \o log \o (IF e # NoError /\ CaughtByPipeline(e.type)
                               THEN <<Entry("ERROR", "error", <<e>>)>> ELSE <<>>)
    /\ pc' = IF e = NoError THEN next_pc ELSE "pipeline_done"
    /\ outcome' = IF e = NoError THEN outcome
                  ELSE IF CaughtByPipeline(e.type) THEN "returned" ELSE e.type

\* mainV2.py:118-119, interpreter.py:319
PipelineStart ==
    /\ pc = "pipeline"
    /\ logs' = Append(logs, Entry("INFO", "etapa1_start", <<>>))
    /\ pc' = "lex"
    /\ UNCHANGED <<inputVars, parserVars, dataVars, printed, err, outcome>>

\* one match of re.finditer in Lexer.tokenize
LexStep ==
    /\ pc = "lex"
    /\ pos <= Len(src)
    /\ \E m \in {LexMatch(src, pos, tokens)} :
          /\ pos' = m.end
          /\ tokens' = m.tokens
          /\ StageEnds(<<>>, m.err, "lex")
    /\ UNCHANGED <<inputVars, cursor, frame, parsed, dataVars, printed>>

\* tokenize returns; Parser(tokens).parse(), SemanticAnalyzer.analyze(), and the
\* end of stage 1
ParseAndAnalyze ==
    /\ pc = "lex"
    /\ pos > Len(src)
    /\ \E p \in {parse(tokens)} :
          /\ cursor' = p.idx
          /\ IF ~p.ok
             THEN /\ parsed' = parsed
                  /\ StageEnds(<<>>, p.err, "validate_stage")
             ELSE /\ parsed' = p.result
                  /\ StageEnds(<<Entry("SUCCESS", "parse_done", <<>>)>> \o analyze_log(p.result)
                                  \o (IF analyze(p.result) = NoError
                                      THEN <<Entry("SUCCESS", "etapa1_done", <<>>)>> ELSE <<>>),
                               analyze(p.result), "validate_stage")
    /\ UNCHANGED <<inputVars, pos, tokens, frame, dataVars, printed>>

\* mainV2.py:123-128
ValidateStage ==
    /\ pc = "validate_stage"
    /\ LET start == <<Entry("INFO", "etapa2_start", <<>>)>>
           d == json_loads(dadosIn)
           l == json_loads(limitesIn)
           run == run_validator(parsed, d.value, l.value)
       IN  IF d.err # NoError THEN StageEnds(start, d.err, "engine_stage") /\ UNCHANGED dataVars
           ELSE IF l.err # NoError THEN StageEnds(start, l.err, "engine_stage") /\ UNCHANGED dataVars
           ELSE /\ dados' = d.value
                /\ limites' = l.value
                /\ StageEnds(start \o run.log
                                \o (IF run.err = NoError
                                    THEN <<Entry("SUCCESS", "etapa2_done", <<>>)>> ELSE <<>>),
                             run.err, "engine_stage")
    /\ UNCHANGED <<inputVars, parserVars, printed>>

\* mainV2.py:131-138
EngineStage ==
    /\ pc = "engine_stage"
    /\ StageEnds(<<Entry("INFO", "etapa3_start", <<>>)>> \o avaliar_features(dados, limites)
                    \o <<Entry("SUCCESS", "etapa3_done", <<>>)>>,
                 NoError, "rules_stage")
    /\ UNCHANGED <<inputVars, parserVars, dataVars, printed>>

\* mainV2.py:141-146, and the return of the logs
RulesStage ==
    /\ pc = "rules_stage"
    /\ logs' = logs \o <<Entry("INFO", "etapa4_start", <<>>)>>
                    \o check_all_rules(parsed.rules, dados, limites).log
                    \o <<Entry("SUCCESS", "etapa4_done", <<>>), Entry("SUCCESS", "complete", <<>>)>>
    /\ outcome' = "returned"
    /\ pc' = "pipeline_done"
    /\ UNCHANGED <<inputVars, parserVars, dataVars, printed, err>>

Next == PipelineStart \/ LexStep \/ ParseAndAnalyze \/ ValidateStage \/ EngineStage \/ RulesStage

Spec == Init /\ [][Next]_vars

\* the entries of the log that run_pipeline_from_content returned
PipelineReturned == pc = "pipeline_done" /\ outcome = "returned"
ErrorEntries == {i \in DOMAIN logs : logs[i].level = "ERROR"}
AlertsFor(rule_name) ==
    {i \in DOMAIN logs : logs[i].tag = "alert" /\ logs[i].args[1] = rule_name}

\* the stage that writes the entries of a tag
StageOfTag(tag) ==
    CASE tag \in {"etapa1_start", "parse_done", "semantic_start", "semantic_done",
                  "etapa1_done"} -> 1
      [] tag \in {"etapa2_start", "validate_start", "validate_done", "etapa2_done"} -> 2
      [] tag \in {"etapa3_start", "features_header", "feature", "features_footer",
                  "etapa3_done"} -> 3
      [] tag \in {"etapa4_start", "rules_header", "failure", "missing", "alert", "clean",
                  "detected", "etapa4_done"} -> 4
      [] tag = "complete" -> 5
      [] OTHER -> 0

\* the stage in which an exception of this class is raised
StageOfError(exc_type) == IF exc_type = "ValidationError" THEN 2 ELSE 1

StageStarts == <<"etapa1_start", "etapa2_start", "etapa3_start", "etapa4_start", "complete">>
StartAt(k) == {i \in DOMAIN logs : logs[i].tag = StageStarts[k]}

\* both documents parse, the program is accepted by the interpreter, and the
\* measured data has a key that is no declared feature
UndeclaredMeasuredKey ==
    /\ dadosIn.wellformed /\ limitesIn.wellformed
    /\ \E i \in DOMAIN logs : logs[i].tag = "etapa1_done"
    /\ declared_features(parsed) # {}
    /\ ~(Keys(dadosIn.object) \subseteq declared_features(parsed))

\* C5: the stages write their entries in the order interpret, validate, evaluate,
\* check rules; a SyntaxError, SemanticError or ValidationError leaves exactly one
\* ERROR entry, the last of the returned log, and no entry of a later stage (an
\* undeclared measured-data key stops the run before any feature-evaluation
\* entry); a run without failure has no ERROR entry and ends with the completion
\* SUCCESS entry.
C5_StagesInOrderOneTerminalError ==
    pc = "pipeline_done" =>
        /\ \A i, j \in DOMAIN logs \ ErrorEntries :
               i < j => StageOfTag(logs[i].tag) <= StageOfTag(logs[j].tag)
        /\ \A i \in DOMAIN logs \ ErrorEntries : StageOfTag(logs[i].tag) \in 1..5
        /\ err.type \in {"SyntaxError", "SemanticError", "ValidationError"} =>
               /\ outcome = "returned"
               /\ ErrorEntries = {Len(logs)}
               /\ logs[Len(logs)].args = <<err>>
               /\ \A i \in DOMAIN logs \ ErrorEntries :
                      StageOfTag(logs[i].tag) <= StageOfError(err.type)
        /\ UndeclaredMeasuredKey =>
               /\ err.type = "ValidationError"
               /\ \A i \in DOMAIN logs : StageOfTag(logs[i].tag) < 3
        /\ err = NoError =>
               /\ outcome = "returned"
               /\ ErrorEntries = {}
               /\ logs[Len(logs)] = Entry("SUCCESS", "complete", <<>>)
               /\ \A k \in DOMAIN StageStarts : Cardinality(StartAt(k)) = 1
               /\ \A k \in 1..4 : \A i \in StartAt(k) : \A j \in StartAt(k + 1) : i < j

\* an undeclared measured-data key: the run stops in stage 2 with the ERROR entry
C5_Witness ==
    /\ PipelineReturned
    /\ src = SRC_ge
    /\ dadosIn = JsonObject(<<<<N_size, 10>>, <<N_zz, 1>>>>)
    /\ err = ValidationError("undeclared_key", F_dados, N_zz)
    /\ Len(logs) = 8
    /\ logs[7] = Entry("INFO", "validate_start", <<>>)
    /\ logs[8] = Entry("ERROR", "error", <<err>>)

\* the inputs of the example: measured size 10, threshold_high 10
ExampleData ==
    /\ dadosIn = JsonObject(<<<<N_size, 10>>>>)
    /\ limitesIn = JsonObject(<<<<N_size, TD_high>>>>)

\* C3: the rule `rule R when Bloater.size >= threshold_high then act`, lexed,
\* parsed and checked with measured size 10 and threshold_high 10, triggers, and
\* its condition string has `>=` as one atom followed by the tier name.
C3_GeRuleTriggersAtThreshold ==
    (pc = "pipeline_done" /\ src \in {SRC_ge, SRC_ge_glued} /\ ExampleData) =>
        /\ Len(parsed.rules) = 1
        /\ Split(parsed.rules[1].condition) = <<N_Bloater \o Dot \o N_size, OP_GE, N_threshold_high>>
        /\ AlertsFor(N_R) # {}

\* C6: an unrecognised character halts lexing at that character with an error
\* naming it, no token reaches the parser, and the returned log ends with the
\* one ERROR entry.
C6_LexErrorSurfaced ==
    (pc = "pipeline_done" /\ src \in {SRC_number, SRC_semicolon}) =>
        /\ err.type = "RuntimeError"
        /\ err.found = <<src[pos]>>
        /\ tokens = <<>> /\ cursor = 0 /\ parsed = NoParsed
        /\ outcome = "returned"
        /\ ErrorEntries = {Len(logs)}

\* the interpreter accepted the program
Interpreted == \E i \in DOMAIN logs : logs[i].tag = "etapa1_done"

\* C14: when the measured-values or the thresholds content is not parsable JSON,
\* the run ends before the evaluation stage with exactly one ERROR entry, the
\* last of the returned log, and without any feature-evaluation or rule entry.
C14_MalformedJsonIsValidationFailure ==
    (pc = "pipeline_done" /\ Interpreted /\ (~dadosIn.wellformed \/ ~limitesIn.wellformed)) =>
        /\ \A i \in DOMAIN logs : StageOfTag(logs[i].tag) < 3
        /\ outcome = "returned"
        /\ ErrorEntries = {Len(logs)}

(***************************************************************************)
(* SpecParse: Parser.parse one loop iteration at a time (interpreter.py).  *)
(* pc names the loop whose test comes next: "parse_top" (parse),           *)
(* "parse_body" (parse_smell), "parse_thresholds" (parse_feature),         *)
(* "parse_condition" and "parse_action" (parse_rule).                      *)
(***************************************************************************)
Frame(smell, feature_name, names, rule_name, condition) ==
    [smell |-> smell, feature_name |-> feature_name, names |-> names,
     rule_name |-> rule_name, condition |-> condition]

\* a source with every construct of the grammar
FullTokens ==
    <<KwTok(KW_smelltype), IdTok(N_T),
      KwTok(KW_smell), IdTok(N_A), KwTok(KW_extends), IdTok(N_T), LBraceTok,
        KwTok(KW_feature), IdTok(N_size), KwTok(KW_is), KwTok(KW_Interval), KwTok(KW_with),
          KwTok(KW_threshold), IdTok(N_HIGH), CommaTok, IdTok(N_LOW),
        KwTok(KW_symptom), IdTok(N_big),
        KwTok(KW_feature), IdTok(N_nm), KwTok(KW_is), KwTok(KW_Interval), KwTok(KW_with),
          KwTok(KW_threshold), IdTok(N_HIGH),
        KwTok(KW_treatment), IdTok(N_act),
      RBraceTok,
      KwTok(KW_smell), IdTok(N_B), LBraceTok, RBraceTok,
      KwTok(KW_rule), IdTok(N_R), KwTok(KW_when), IdTok(N_A), DotTok, IdTok(N_size), OpTok(">"),
        OpTok("="), IdTok(N_HIGH), KwTok(KW_then), IdTok(N_act), IdTok(N_now),
      KwTok(KW_rule), IdTok(N_Q), KwTok(KW_when), KwTok(KW_then), IdTok(N_act)>>

\* the tokens that take the place of one token of the source
WrongTokens == {IdTok(N_X), CommaTok, RBraceTok, KwTok(KW_then), KwTok(KW_feature),
                KwTok(KW_rule)}

\* the source, the source cut short at any token, and the source with any one
\* token replaced
ParseInputs ==
    {SubSeq(FullTokens, 1, n) : n \in 0..Len(FullTokens)}
    \cup {[FullTokens EXCEPT ![k] = t] : k \in DOMAIN FullTokens, t \in WrongTokens}

InitParse ==
    /\ pc = "parse_top"
    /\ tokens \in ParseInputs
    /\ src = <<>> /\ dadosIn = <<>> /\ limitesIn = <<>> /\ program = <<>>
    /\ pos = 1 /\ cursor = 0 /\ frame = NoFrame /\ parsed = NoParsed
    /\ dados = <<>> /\ limites = <<>>
    /\ logs = <<>> /\ printed = <<>>
    /\ err = NoError
    /\ outcome = "none"

\* a SyntaxError leaves parse(): r is what the failed call reports
ParseRaises(r) ==
    /\ cursor' = r.idx
    /\ err' = r.err
    /\ outcome' = r.err.type
    /\ pc' = "parse_failed"
    /\ UNCHANGED <<frame, parsed, logs>>

\* the cursor moves on and the method goes on at next_pc
ParseGoesOn(idx, next_pc, next_frame, result) ==
    /\ cursor' = idx
    /\ pc' = next_pc
    /\ frame' = next_frame
    /\ parsed' = result
    /\ UNCHANGED <<err, outcome, logs>>

\* interpreter.py:153-162: one test of the loop of parse that finds a token, up
\* to the first inner loop of the declaration
ParseTopStep ==
    /\ pc = "parse_top"
    /\ HasCurrent(tokens, cursor)
    /\ CASE CurType(tokens, cursor) = TY_SMELLTYPE ->
              (\E r \in {parse_smelltype(tokens, cursor, parsed)} :
                  IF r.ok THEN ParseGoesOn(r.idx, "parse_top", frame, r.result)
                  ELSE ParseRaises(r))
         [] CurType(tokens, cursor) = TY_SMELL ->
              (\E r \in {EatSeq(tokens, cursor,
                                IF CurIs(tokens, cursor + 2, TY_EXTENDS)
                                THEN <<TY_SMELL, TY_ID, TY_EXTENDS, TY_ID, TY_LBRACE>>
                                ELSE <<TY_SMELL, TY_ID, TY_LBRACE>>)} :
                  IF r.ok
                  THEN ParseGoesOn(r.idx, "parse_body",
                                   Frame(Smell(tokens[cursor + 2].value,
                                               IF r.idx = cursor + 5
                                               THEN tokens[cursor + 4].value ELSE PyNone,
                                               <<>>, PyNone, PyNone),
                                         <<>>, <<>>, <<>>, <<>>),
                                   parsed)
                  ELSE ParseRaises(r))
         [] CurType(tokens, cursor) = TY_RULE ->
              (\E r \in {EatSeq(tokens, cursor, <<TY_RULE, TY_ID, TY_WHEN>>)} :
                  IF r.ok
                  THEN ParseGoesOn(r.idx, "parse_condition",
                                   Frame(PyNone, <<>>, <<>>, tokens[cursor + 2].value, <<>>),
                                   parsed)
                  ELSE ParseRaises(r))
         [] OTHER ->
              ParseRaises([idx |-> cursor,
                           err |-> Error("SyntaxError", "declaration", <<>>,
                                         CurType(tokens, cursor))])
    /\ UNCHANGED <<inputVars, pos, tokens, dataVars, printed>>

\* interpreter.py:164-169: the loop of parse ends
ParseReturns ==
    /\ pc = "parse_top"
    /\ ~HasCurrent(tokens, cursor)
    /\ logs' = Append(logs, Entry("SUCCESS", "parse_done", <<>>))
    /\ outcome' = "returned"
    /\ pc' = "parse_done"
    /\ UNCHANGED <<inputVars, parserVars, dataVars, printed, err>>

\* interpreter.py:185-196: one pass of the loop of parse_smell, up to the loop
\* of parse_feature
ParseBodyStep ==
    /\ pc = "parse_body"
    /\ HasCurrent(tokens, cursor) /\ CurType(tokens, cursor) # TY_RBRACE
    /\ CASE CurType(tokens, cursor) = TY_FEATURE ->
              (\E r \in {EatSeq(tokens, cursor, <<TY_FEATURE, TY_ID, TY_IS, TY_INTERVAL,
                                                  TY_WITH, TY_THRESHOLD, TY_ID>>)} :
                  IF r.ok
                  THEN ParseGoesOn(r.idx, "parse_thresholds",
                                   [frame EXCEPT !.feature_name = tokens[cursor + 2].value,
                                                 !.names = <<tokens[cursor + 7].value>>],
                                   parsed)
                  ELSE ParseRaises(r))
         [] CurType(tokens, cursor) = TY_SYMPTOM ->
              (\E r \in {EatSeq(tokens, cursor, <<TY_SYMPTOM, TY_ID>>)} :
                  IF r.ok
                  THEN ParseGoesOn(r.idx, "parse_body",
                                   [frame EXCEPT !.smell.symptom = tokens[cursor + 2].value],
                                   parsed)
                  ELSE ParseRaises(r))
         [] CurType(tokens, cursor) = TY_TREATMENT ->
              (\E r \in {EatSeq(tokens, cursor, <<TY_TREATMENT, TY_ID>>)} :
                  IF r.ok
                  THEN ParseGoesOn(r.idx, "parse_body",
                                   [frame EXCEPT !.smell.treatment = tokens[cursor + 2].value],
                                   parsed)
                  ELSE ParseRaises(r))
         [] OTHER ->
              ParseRaises([idx |-> cursor,
                           err |-> Error("SyntaxError", "smell_body", <<>>,
                                         CurType(tokens, cursor))])
    /\ UNCHANGED <<inputVars, pos, tokens, dataVars, printed>>

\* interpreter.py:197-198: the loop of parse_smell ends
ParseBodyEnd ==
    /\ pc = "parse_body"
    /\ ~(HasCurrent(tokens, cursor) /\ CurType(tokens, cursor) # TY_RBRACE)
    /\ \E r \in {eat(tokens, cursor, TY_RBRACE)} :
          IF r.ok
          THEN ParseGoesOn(r.idx, "parse_top", NoFrame,
                           [parsed EXCEPT !.smells = Append(@, frame.smell)])
          ELSE ParseRaises(r)
    /\ UNCHANGED <<inputVars, pos, tokens, dataVars, printed>>

\* interpreter.py:208-210: one pass of the loop of parse_feature
ParseThresholdStep ==
    /\ pc = "parse_thresholds"
    /\ CurIs(tokens, cursor, TY_COMMA)
    /\ \E r \in {EatSeq(tokens, cursor, <<TY_COMMA, TY_ID>>)} :
          IF r.ok
          THEN ParseGoesOn(r.idx, "parse_thresholds",
                           [frame EXCEPT !.names = Append(@, tokens[cursor + 2].value)], parsed)
          ELSE ParseRaises(r)
    /\ UNCHANGED <<inputVars, pos, tokens, dataVars, printed>>

\* interpreter.py:211, 189: parse_feature returns and the feature is appended
ParseThresholdsEnd ==
    /\ pc = "parse_thresholds"
    /\ ~CurIs(tokens, cursor, TY_COMMA)
    /\ ParseGoesOn(cursor, "parse_body",
                   [frame EXCEPT !.smell.features =
                                    Append(@, Feature(frame.feature_name, frame.names)),
                                 !.feature_name = <<>>, !.names = <<>>],
                   parsed)
    /\ UNCHANGED <<inputVars, pos, tokens, dataVars, printed>>

\* interpreter.py:219-221: one pass of the condition loop of parse_rule
ParseConditionStep ==
    /\ pc = "parse_condition"
    /\ HasCurrent(tokens, cursor) /\ CurType(tokens, cursor) # TY_THEN
    /\ ParseGoesOn(advance(cursor), "parse_condition",
                   [frame EXCEPT !.condition = Append(@, tokens[cursor + 1].value)], parsed)
    /\ UNCHANGED <<inputVars, pos, tokens, dataVars, printed>>

\* interpreter.py:222-227: the condition loop ends; eat THEN and the first word
\* of the action
ParseConditionEnd ==
    /\ pc = "parse_condition"
    /\ ~(HasCurrent(tokens, cursor) /\ CurType(tokens, cursor) # TY_THEN)
    /\ \E r \in {EatSeq(tokens, cursor, <<TY_THEN, TY_ID>>)} :
          IF r.ok
          THEN ParseGoesOn(r.idx, "parse_action",
                           [frame EXCEPT !.condition = ConditionString(@),
                                         !.names = <<tokens[cursor + 2].value>>],
                           parsed)
          ELSE ParseRaises(r)
    /\ UNCHANGED <<inputVars, pos, tokens, dataVars, printed>>

\* interpreter.py:230-232: one pass of the action loop of parse_rule
ParseActionStep ==
    /\ pc = "parse_action"
    /\ CurIs(tokens, cursor, TY_ID)
    /\ ParseGoesOn(action_loop_advance(cursor), "parse_action",
                   [frame EXCEPT !.names = Append(@, tokens[cursor + 1].value)], parsed)
    /\ UNCHANGED <<inputVars, pos, tokens, dataVars, printed>>

\* interpreter.py:234-237: the action loop ends and the rule is appended
ParseActionEnd ==
    /\ pc = "parse_action"
    /\ ~CurIs(tokens, cursor, TY_ID)
    /\ ParseGoesOn(cursor, "parse_top", NoFrame,
                   [parsed EXCEPT !.rules = Append(@, Rule(frame.rule_name, frame.condition,
                                                           Join(frame.names, <<" ">>)))])
    /\ UNCHANGED <<inputVars, pos, tokens, dataVars, printed>>

NextParse ==
    \/ ParseTopStep \/ ParseReturns
    \/ ParseBodyStep \/ ParseBodyEnd
    \/ ParseThresholdStep \/ ParseThresholdsEnd
    \/ ParseConditionStep \/ ParseConditionEnd
    \/ ParseActionStep \/ ParseActionEnd

\* parse() runs until it returns or raises
SpecParse == InitParse /\ [][NextParse]_vars /\ WF_vars(NextParse)

ParseEnded == pc \in {"parse_done", "parse_failed"}

\* the test of the loop under way finds the loop's condition true
LoopIterates ==
    \/ pc = "parse_top" /\ HasCurrent(tokens, cursor)
    \/ pc = "parse_body" /\ HasCurrent(tokens, cursor) /\ CurType(tokens, cursor) # TY_RBRACE
    \/ pc = "parse_thresholds" /\ CurIs(tokens, cursor, TY_COMMA)
    \/ pc = "parse_condition" /\ HasCurrent(tokens, cursor) /\ CurType(tokens, cursor) # TY_THEN
    \/ pc = "parse_action" /\ CurIs(tokens, cursor, TY_ID)

\* parse() taken one loop iteration at a time ends as Parser.parse, taken whole
StepwiseParseAgrees ==
    ParseEnded =>
        LET p == parse(tokens)
        IN  /\ p.ok <=> pc = "parse_done"
            /\ p.idx = cursor
            /\ p.err = err
            /\ p.ok => p.result = parsed

\* C16: parse terminates on every token sequence: the cursor never decreases and
\* never passes the end of the tokens; a pass of the top-level, smell-body,
\* threshold, condition or action loop moves the cursor forward or raises
\* SyntaxError; parse ends either returning its result with the cursor at the end
\* of the tokens, or with a SyntaxError and nothing returned; the source written
\* in the grammar is returned.
C16_ParseTerminates ==
    /\ [][ /\ cursor' >= cursor
           /\ LoopIterates =>
                 \/ cursor' > cursor
                 \/ pc' = "parse_failed" /\ err'.type = "SyntaxError" ]_vars
    /\ [](cursor \in 0..Len(tokens))
    /\ [](pc = "parse_done" =>
             cursor = Len(tokens) /\ outcome = "returned" /\ err = NoError
             /\ logs = <<Entry("SUCCESS", "parse_done", <<>>)>>)
    /\ [](pc = "parse_failed" =>
             err.type = "SyntaxError" /\ outcome = "SyntaxError" /\ logs = <<>>)
    /\ []((ParseEnded /\ tokens = FullTokens) => pc = "parse_done")
    /\ <>ParseEnded

\* the whole source has been parsed: every loop has iterated and ended
C16_Witness ==
    /\ pc = "parse_done"
    /\ tokens = FullTokens
    /\ cursor = Len(tokens)
    /\ parsed.smell_types = <<N_T>>
    /\ Len(parsed.smells) = 2
    /\ Len(parsed.smells[1].features) = 2
    /\ parsed.smells[1].features[1].thresholds = <<N_HIGH, N_LOW>>
    /\ Len(parsed.rules) = 2
    /\ parsed.rules[1].action = N_act \o Sp \o N_now
    /\ parsed.rules[2].condition = <<>>

====
